---- MODULE Spec2Model ----
(***************************************************************************)
(* A model of the xgrammar C bridging layer (Sources/Cxgrammar/bridging.cc *)
(* and swift_shims.cc) driving one GrammarMatcher and a caller-owned       *)
(* bitmask buffer.  The bridge functions are translated from the source;   *)
(* the engine they call (xgrammar::GrammarMatcher and friends) is not part *)
(* of the source tree and is modelled from the written specification.      *)
(***************************************************************************)
EXTENDS Integers, Sequences, FiniteSets, TLC

VARIABLES
  create_args,   \* the arguments xgrammar_matcher_create was called with
  matcher,       \* the GrammarMatcher behind the xgrammar_grammar_matcher handle
  buffer,        \* the caller-owned int32 bitmask allocation (NumRows rows)
  accepted,      \* observer: the inputs accepted and not undone since construction/reset
  last_call,     \* observer: the last bridge call, its arguments and its result
  held,          \* the grammars behind the xgrammar_grammar handles the caller holds
  factory,       \* observer: the last grammar factory call and what it handed back
  held_info,     \* the xgrammar_tokenizer_info handle the caller holds
  compiler,      \* the GrammarCompiler behind the xgrammar_grammar_compiler handle
  threads        \* the caller threads and the Compile* call each one is in

vars == <<create_args, matcher, buffer, accepted, last_call, held, factory, held_info, compiler, threads>>

(***************************************************************************)
(* Bounds of the model.                                                    *)
(***************************************************************************)
MaxBytes == 2
NumRows == 2
MaxRollback == 2
VocabSize == 34

NULL == "NULL"
PTR == "PTR"

(***************************************************************************)
(* Sequences helpers.                                                      *)
(***************************************************************************)
RECURSIVE SumSeq(_)
SumSeq(s) == IF s = <<>> THEN 0 ELSE Head(s) + SumSeq(Tail(s))

LastN(s, n) == IF Len(s) <= n THEN s ELSE SubSeq(s, Len(s) - n + 1, Len(s))

DropLastN(s, n) == IF n >= Len(s) THEN <<>> ELSE SubSeq(s, 1, Len(s) - n)

SeqToSet(s) == {s[i] : i \in 1..Len(s)}

(***************************************************************************)
(* TokenizerInfo: the vocabulary the compiled grammars were built against. *)
(* Token ids are dense in [0, VocabSize).                                  *)
(***************************************************************************)
DecodedVocab(id) ==
  CASE id = 0 -> <<"a">>
    [] id = 1 -> <<"b">>
    [] id = 2 -> <<"a", "b">>
    [] id = 3 -> <<>>
    [] id = 4 -> <<>>
    [] id = 5 -> <<"b">>
    [] id = 32 -> <<"b", "a">>
    [] id = 33 -> <<"a">>
    [] OTHER -> <<"z">>

TokenizerStopTokenIds == <<3>>

SpecialTokenIds == {3, 4}

(***************************************************************************)
(* CompiledGrammar: a grammar lowered to positions and byte transitions.   *)
(* Dead is the rejecting sink.                                             *)
(***************************************************************************)
Dead == 0 - 1

Grammars == {"ab_star", "a_then_b"}

StartPos(g) == 0

Delta(g, q, c) ==
  CASE g = "ab_star" /\ q = 0 /\ c = "a" -> 1
    [] g = "ab_star" /\ q = 1 /\ c = "b" -> 0
    [] g = "a_then_b" /\ q = 0 /\ c = "a" -> 1
    [] g = "a_then_b" /\ q = 1 /\ c = "b" -> 2
    [] OTHER -> Dead

CanReachEnd(g, q) ==
  \/ g = "ab_star" /\ q = 0
  \/ g = "a_then_b" /\ q = 2

\* The positions visited while consuming s from q, one per byte; <<>> marks
\* a rejected string when s is not empty.
RECURSIVE Trace(_, _, _)
Trace(g, q, s) ==
  IF s = <<>> THEN <<>>
  ELSE LET n == Delta(g, q, Head(s))
       IN IF n = Dead THEN <<Dead>>
          ELSE <<n>> \o Trace(g, n, Tail(s))

Rejects(g, q, s) ==
  LET tr == Trace(g, q, s)
  IN tr # <<>> /\ tr[Len(tr)] = Dead

\* The per-position table built at compile time: the tokens whose decoded
\* bytes are a valid continuation at position q.
Positions == 0..2

CompiledTable ==
  [g \in Grammars |->
     [q \in Positions |->
        {id \in 0..(VocabSize - 1) :
           /\ id \notin SpecialTokenIds
           /\ DecodedVocab(id) # <<>>
           /\ ~Rejects(g, q, DecodedVocab(id))}]]

TokenTable(g, q) == CompiledTable[g][q]

(***************************************************************************)
(* GrammarMatcher (engine).  State: the parse stack history (one position  *)
(* per consumed byte, the last one current), the lengths of the accepted   *)
(* tokens that can still be rolled back, and the stop-token flag.          *)
(***************************************************************************)
\* ceil(vocab_size / 32), the number of 32-bit words that hold one bit per
\* token id.
GetBitmaskSize(vocab_size) ==
  vocab_size \div 32 + (IF vocab_size % 32 = 0 THEN 0 ELSE 1)

GrammarMatcher(compiled_grammar, override_opt, terminate_without_stop_token, max_rollback_tokens) ==
  [grammar |-> compiled_grammar,
   stop_token_ids |-> IF override_opt.has_value THEN override_opt.value
                      ELSE TokenizerStopTokenIds,
   terminate_without_stop_token |-> terminate_without_stop_token,
   max_rollback_tokens |-> max_rollback_tokens,
   stack |-> <<StartPos(compiled_grammar)>>,
   token_length_history |-> <<>>,
   stop_token_is_accepted |-> FALSE]

CurPos(m) == m.stack[Len(m.stack)]

AtAcceptingPosition(m) == CanReachEnd(m.grammar, CurPos(m))

GetStopTokenIds(m) == m.stop_token_ids

IsTerminated(m) ==
  \/ m.stop_token_is_accepted
  \/ m.terminate_without_stop_token /\ AtAcceptingPosition(m)

PushHistory(m, len) ==
  LastN(Append(m.token_length_history, len), m.max_rollback_tokens)

AcceptString(m, str, debug_print) ==
  IF IsTerminated(m) \/ Rejects(m.grammar, CurPos(m), str)
  THEN [ret |-> FALSE, m |-> m]
  ELSE [ret |-> TRUE,
        m |-> [m EXCEPT !.stack = m.stack \o Trace(m.grammar, CurPos(m), str),
                        !.token_length_history = PushHistory(m, Len(str))]]

AcceptToken(m, token_id, debug_print) ==
  IF IsTerminated(m) THEN [ret |-> FALSE, m |-> m]
  ELSE IF token_id \in SeqToSet(m.stop_token_ids)
  THEN IF AtAcceptingPosition(m)
       THEN [ret |-> TRUE,
             m |-> [m EXCEPT !.stop_token_is_accepted = TRUE,
                             !.token_length_history = PushHistory(m, 0)]]
       ELSE [ret |-> FALSE, m |-> m]
  ELSE IF token_id \in SpecialTokenIds THEN [ret |-> FALSE, m |-> m]
  ELSE AcceptString(m, DecodedVocab(token_id), debug_print)

\* Mutant: a Rollback whose precondition fails empties the history and clears
\* the stop flag but leaves the parse stack where it was.
Rollback_Corrupting(m, num_tokens, handling) ==
  LET avail == Len(m.token_length_history)
      n == IF num_tokens <= 0 THEN 0 ELSE IF num_tokens <= avail THEN num_tokens ELSE avail
      bytes == IF num_tokens <= avail THEN SumSeq(LastN(m.token_length_history, n)) ELSE 0
  IN IF n = 0 THEN m
     ELSE [m EXCEPT !.stack = DropLastN(m.stack, bytes),
                    !.token_length_history = DropLastN(m.token_length_history, n),
                    !.stop_token_is_accepted = FALSE]

\* handling: what the implementation does with a Rollback whose precondition
\* fails ("reject": nothing, "clamp": undo what can be undone).
Rollback(m, num_tokens, handling) ==
  LET avail == Len(m.token_length_history)
      n == IF num_tokens <= 0 THEN 0
           ELSE IF num_tokens <= avail THEN num_tokens
           ELSE IF handling = "clamp" THEN avail ELSE 0
      bytes == SumSeq(LastN(m.token_length_history, n))
  IN IF n = 0 THEN m
     ELSE [m EXCEPT !.stack = DropLastN(m.stack, bytes),
                    !.token_length_history = DropLastN(m.token_length_history, n),
                    !.stop_token_is_accepted = FALSE]

Reset(m) ==
  [m EXCEPT !.stack = <<StartPos(m.grammar)>>,
            !.token_length_history = <<>>,
            !.stop_token_is_accepted = FALSE]

\* The bytes a grammar position can be left by.
Alphabet == {"a", "b", "z"}

\* The forced continuation from position q: while the grammar cannot end
\* where it is and exactly one byte leads on, that byte.
RECURSIVE ForcedRun(_, _)
ForcedRun(g, q) ==
  LET next == {c \in Alphabet : Delta(g, q, c) # Dead}
  IN  IF CanReachEnd(g, q) \/ Cardinality(next) # 1 THEN <<>>
      ELSE LET c == CHOOSE x \in next : TRUE
           IN  <<c>> \o ForcedRun(g, Delta(g, q, c))

\* For a Terminated matcher the empty string stands for whatever comes
\* back.  The matcher is handed back as the call leaves it.
FindJumpForwardString(m) ==
  [str |-> IF IsTerminated(m) THEN <<>> ELSE ForcedRun(m.grammar, CurPos(m)), m |-> m]

\* The tokens acceptable next, read off the compiled per-position table.
NextTokens(m) ==
  LET stops == SeqToSet(m.stop_token_ids) \cap (0..(VocabSize - 1))
  IN IF IsTerminated(m) THEN {}
     ELSE (TokenTable(m.grammar, CurPos(m)) \ stops)
            \cup (IF AtAcceptingPosition(m) THEN stops ELSE {})

\* One row of the bitmask: word w holds token ids 32*(w-1) .. 32*(w-1)+31,
\* a word being the set of its set bit positions.
MaskRow(m) ==
  LET next == NextTokens(m)
  IN [w \in 1..GetBitmaskSize(VocabSize) |->
        {b \in 0..31 : (32 * (w - 1) + b) \in next}]

\* mem is the memory tensor.data points into; a null data pointer or a null
\* matcher handle is dereferenced (a fault).
FillNextTokenBitmask(h, tensor, mem, index, debug_print) ==
  LET row_length == GetBitmaskSize(VocabSize)
      row == MaskRow(h.obj)
  IN IF h.null \/ tensor.data = NULL THEN [ret |-> "fault", mem |-> mem]
     ELSE IF tensor.ndim # 1 \/ tensor.shape[1] # row_length
     THEN [ret |-> "false", mem |-> mem]
     ELSE [ret |-> "true",
           mem |-> [i \in 1..Len(mem) |->
                      IF i > index * row_length /\ i <= (index + 1) * row_length
                      THEN row[i - index * row_length]
                      ELSE mem[i]]]

(***************************************************************************)
(* The C bridge (bridging.cc).  A handle is [null, obj]; an int32 array    *)
(* argument is [null, elems].                                              *)
(***************************************************************************)
\* Mutant: the range copied ends one element early.
OverrideOpt_OffByOne(override_stop_tokens, override_stop_token_count, has_override_stop_tokens) ==
  IF has_override_stop_tokens
  THEN IF ~override_stop_tokens.null /\ override_stop_token_count > 0
       THEN [has_value |-> TRUE,
             value |-> SubSeq(override_stop_tokens.elems, 1, override_stop_token_count - 1)]
       ELSE [has_value |-> TRUE, value |-> <<>>]
  ELSE [has_value |-> FALSE, value |-> <<>>]

OverrideOpt(override_stop_tokens, override_stop_token_count, has_override_stop_tokens) ==
  IF has_override_stop_tokens
  THEN IF ~override_stop_tokens.null /\ override_stop_token_count > 0
       THEN [has_value |-> TRUE,
             value |-> SubSeq(override_stop_tokens.elems, 1, override_stop_token_count)]
       ELSE [has_value |-> TRUE, value |-> <<>>]
  ELSE [has_value |-> FALSE, value |-> <<>>]

\* Mutant: terminate_without_stop_token is not passed on.
xgrammar_matcher_create_DropsTerminateFlag(a) ==
  GrammarMatcher(a.compiled_grammar,
                 OverrideOpt(a.override_stop_tokens, a.override_stop_token_count,
                             a.has_override_stop_tokens),
                 FALSE, a.max_rollback_tokens)

xgrammar_matcher_create(a) ==
  GrammarMatcher(a.compiled_grammar,
                 OverrideOpt(a.override_stop_tokens, a.override_stop_token_count,
                             a.has_override_stop_tokens),
                 a.terminate_without_stop_token, a.max_rollback_tokens)

\* Mutant: the engine's result is dropped and false is returned.
xgrammar_matcher_accept_token_DropsResult(m, token_id) ==
  [ret |-> FALSE, m |-> AcceptToken(m, token_id, FALSE).m]

\* Mutant: the token id handed to the engine is off by one.
xgrammar_matcher_accept_token_NextId(m, token_id) == AcceptToken(m, token_id + 1, FALSE)

xgrammar_matcher_accept_token(m, token_id) == AcceptToken(m, token_id, FALSE)

\* Mutant: the engine's result is dropped and true is returned.
xgrammar_matcher_accept_string_ReturnsTrue(m, str) ==
  [ret |-> TRUE, m |-> AcceptString(m, str, FALSE).m]

xgrammar_matcher_accept_string(m, str) == AcceptString(m, str, FALSE)

\* Mutant: one token too few is rolled back.
xgrammar_matcher_rollback_OneLess(m, num_tokens, handling) ==
  Rollback(m, num_tokens - 1, handling)

xgrammar_matcher_rollback(m, num_tokens, handling) == Rollback(m, num_tokens, handling)

\* Mutant: the call to the engine is missing.
xgrammar_matcher_reset_NoCall(m) == m

xgrammar_matcher_reset(m) == Reset(m)

xgrammar_matcher_is_terminated(m) == IsTerminated(m)

\* The C string handed to the caller: the bytes up to the first NUL.
RECURSIVE copy_string(_)
copy_string(str) ==
  IF str = <<>> \/ Head(str) = "NUL" THEN <<>> ELSE <<Head(str)>> \o copy_string(Tail(str))

\* Mutant: the string found is also fed to the matcher.
xgrammar_matcher_find_jump_forward_string_Advances(m) ==
  LET r == FindJumpForwardString(m)
  IN  [str |-> copy_string(r.str), m |-> AcceptString(r.m, r.str, FALSE).m]

xgrammar_matcher_find_jump_forward_string(m) ==
  LET r == FindJumpForwardString(m)
  IN  [str |-> copy_string(r.str), m |-> r.m]

DLTensor(bitmask_data, bitmask_count) ==
  [data |-> bitmask_data, device |-> <<"kDLCPU", 0>>, ndim |-> 1,
   dtype |-> <<"kDLInt", 32, 1>>, shape |-> <<bitmask_count>>,
   strides |-> NULL, byte_offset |-> 0]

\* Mutant: the null check of the buffer is missing.
xgrammar_matcher_fill_next_token_bitmask_NoDataCheck(h, bitmask_data, mem, bitmask_count, index) ==
  IF h.null \/ bitmask_count <= 0
  THEN [ret |-> "false", mem |-> mem]
  ELSE FillNextTokenBitmask(h, DLTensor(bitmask_data, bitmask_count), mem, index, FALSE)

\* Mutant: the batch index is not passed on.
xgrammar_matcher_fill_next_token_bitmask_NoIndex(h, bitmask_data, mem, bitmask_count, index) ==
  IF h.null \/ bitmask_data = NULL \/ bitmask_count <= 0
  THEN [ret |-> "false", mem |-> mem]
  ELSE FillNextTokenBitmask(h, DLTensor(bitmask_data, bitmask_count), mem, 0, FALSE)

xgrammar_matcher_fill_next_token_bitmask(h, bitmask_data, mem, bitmask_count, index) ==
  IF h.null \/ bitmask_data = NULL \/ bitmask_count <= 0
  THEN [ret |-> "false", mem |-> mem]
  ELSE FillNextTokenBitmask(h, DLTensor(bitmask_data, bitmask_count), mem, index, FALSE)

\* What the bridge hands the engine: nothing when a guard fails.
xgrammar_matcher_fill_engine_call(h, bitmask_data, bitmask_count, index) ==
  IF h.null \/ bitmask_data = NULL \/ bitmask_count <= 0
  THEN [called |-> FALSE]
  ELSE [called |-> TRUE, tensor |-> DLTensor(bitmask_data, bitmask_count),
        index |-> index, debug_print |-> FALSE]

(***************************************************************************)
(* The Swift shims (swift_shims.cc): the same marshaling, written a second *)
(* time for the C++ interoperability build.                                *)
(***************************************************************************)
swift_api_DLTensor(bitmask_data, bitmask_count) ==
  [data |-> bitmask_data, device |-> <<"kDLCPU", 0>>, ndim |-> 1,
   dtype |-> <<"kDLInt", 32, 1>>, shape |-> <<bitmask_count>>,
   strides |-> NULL, byte_offset |-> 0]

\* Mutant: the count is not checked.
swift_api_FillNextTokenBitmask_engine_call_NoCountCheck(h, bitmask_data, bitmask_count, index, debug_print) ==
  IF h.null \/ bitmask_data = NULL
  THEN [called |-> FALSE]
  ELSE [called |-> TRUE, tensor |-> swift_api_DLTensor(bitmask_data, bitmask_count),
        index |-> index, debug_print |-> debug_print]

\* What the shim hands the engine: nothing when a guard fails.
swift_api_FillNextTokenBitmask_engine_call(h, bitmask_data, bitmask_count, index, debug_print) ==
  IF h.null \/ bitmask_data = NULL \/ bitmask_count <= 0
  THEN [called |-> FALSE]
  ELSE [called |-> TRUE, tensor |-> swift_api_DLTensor(bitmask_data, bitmask_count),
        index |-> index, debug_print |-> debug_print]

swift_api_FillNextTokenBitmask(h, bitmask_data, mem, bitmask_count, index, debug_print) ==
  LET c == swift_api_FillNextTokenBitmask_engine_call(h, bitmask_data, bitmask_count, index, debug_print)
  IN  IF ~c.called THEN [ret |-> "false", mem |-> mem]
      ELSE FillNextTokenBitmask(h, c.tensor, mem, c.index, c.debug_print)

CreateGrammarMatcherFromArray_override_opt(override_stop_tokens, override_stop_token_count, has_override_stop_tokens) ==
  LET nullopt == [has_value |-> FALSE, value |-> <<>>]
  IN  IF ~has_override_stop_tokens THEN nullopt
      ELSE IF ~override_stop_tokens.null /\ override_stop_token_count > 0
      THEN [has_value |-> TRUE,
            value |-> SubSeq(override_stop_tokens.elems, 1, override_stop_token_count)]
      ELSE [has_value |-> TRUE, value |-> <<>>]

CreateGrammarMatcherFromArray(a) ==
  GrammarMatcher(a.compiled_grammar,
                 CreateGrammarMatcherFromArray_override_opt(
                   a.override_stop_tokens, a.override_stop_token_count,
                   a.has_override_stop_tokens),
                 a.terminate_without_stop_token, a.max_rollback_tokens)

(***************************************************************************)
(* The caller: one matcher, one buffer of NumRows rows, any order of calls.*)
(***************************************************************************)
\* Mutant: the bridge counts the full words only.
xgrammar_get_bitmask_size_FullWords(vocab_size) == vocab_size \div 32

xgrammar_get_bitmask_size(vocab_size) == GetBitmaskSize(vocab_size)

RowLength == GetBitmaskSize(VocabSize)

\* The vocabulary sizes a caller asks the word count for: the small ones and
\* the ones next to the largest int32_t.
MaxVocabInput == 70

Int32Max == 2147483647

VocabSizeInputs ==
  (0..MaxVocabInput) \cup {Int32Max - k : k \in 0..MaxVocabInput}

PoisonWord == {31}

OverrideArray == <<5, 3>>

TokenInputs == {0, 1, 2, 3, 4, 5, 6, 33}

StringInputs == {<<"a">>, <<"a", "b">>, <<"b", "z">>}

\* The (matcher is null, bitmask_data, bitmask_count, index) arguments of a
\* fill call: the well-formed call on every row, each guard failing alone, all
\* failing, and a count that is positive but not the row length.
FillInputs ==
  {<<FALSE, PTR, RowLength, idx>> : idx \in 0..(NumRows - 1)}
    \cup {<<TRUE, PTR, RowLength, 0>>, <<FALSE, NULL, RowLength, NumRows - 1>>,
          <<FALSE, PTR, 0, 0>>, <<FALSE, PTR, -1, NumRows - 1>>, <<TRUE, NULL, 0, 0>>,
          <<FALSE, PTR, NumRows * RowLength, 0>>,
          <<FALSE, PTR, NumRows * RowLength, NumRows - 1>>}

\* The (has_override_stop_tokens, pointer is null, count) triples a matcher
\* is created with.
OverrideInputs ==
  {<<FALSE, FALSE, 2>>, <<TRUE, TRUE, 2>>,
   <<TRUE, FALSE, 0>>, <<TRUE, FALSE, 1>>, <<TRUE, FALSE, 2>>}

B2S(b) == IF b THEN "true" ELSE "false"

NoInfoArgs ==
  [encoded_vocab |-> [null |-> TRUE, elems |-> <<>>], encoded_vocab_count |-> 0,
   vocab_type |-> "XGRAMMAR_VOCAB_RAW", vocab_size |-> 0, has_vocab_size |-> FALSE,
   stop_token_ids |-> [null |-> TRUE, elems |-> <<>>], stop_token_count |-> 0,
   has_stop_token_ids |-> FALSE, add_prefix_space |-> FALSE]

NoCall ==
  [op |-> "create", ret |-> "void", token_id |-> -1, str |-> <<>>, num_tokens |-> 0,
   undone |-> 0, avail |-> 0, handle_null |-> FALSE, data |-> PTR, count |-> 0, index |-> 0,
   at_value |-> 0, at_text |-> "", info_args |-> NoInfoArgs,
   combine_args |-> [null |-> TRUE, elems |-> <<>>, count |-> 0],
   vocab_size |-> 0, bitmask_size |-> 0, debug_print |-> FALSE]

ConsumedBytes(m) == Len(m.stack) - 1

\* What the caller knows it fed the matcher: the bytes of a token or string,
\* or a stop token of the configuration the matcher was created with.
EffectiveStopTokenIds ==
  IF create_args.has_override_stop_tokens
  THEN IF create_args.override_stop_tokens.null \/ create_args.override_stop_token_count <= 0
       THEN {}
       ELSE {OverrideArray[i] : i \in 1..create_args.override_stop_token_count}
  ELSE SeqToSet(TokenizerStopTokenIds)

Entry(m, id) ==
  IF id \in EffectiveStopTokenIds THEN [stop |-> TRUE, str |-> <<>>]
  ELSE [stop |-> FALSE, str |-> DecodedVocab(id)]

(***************************************************************************)
(* Grammar construction.  The engine side (xgrammar::Grammar) follows the  *)
(* specification's component contract 4.1; the bridge side follows         *)
(* bridging.cc.  Inputs are named by the text the caller passes.           *)
(***************************************************************************)
MaxHeld == 2

UNSET == "UNSET"

EBNFInputs == {"root ::= a", "main ::= a", "root ::= ("}

RootRuleInputs == {NULL, "root", "main"}

RegexInputs == {"a+", "a("}

SchemaInputs == {"{type:object}", "{type:1}", "{not json"}

StructuralTagInputs ==
  {"{tags:[ok]}", "{not json", "{tags:[bad schema]}", "{tags:[overlapping]}"}

SerializedInputs ==
  {"{v:current,g:ok}", "{v:newer,g:ok}", "{v:current,g:broken}",
   "{v:newer,g:broken}", "{not json"}

NoOpts ==
  [any_whitespace |-> FALSE,
   indent_opt |-> [has_value |-> FALSE, value |-> 0],
   separators_opt |-> [has_value |-> FALSE, first |-> "", second |-> ""],
   strict_mode |-> FALSE,
   max_ws_opt |-> [has_value |-> FALSE, value |-> 0]]

Grammar(src, text, root, opts) ==
  [src |-> src, text |-> text, root |-> root, opts |-> opts, parts |-> <<>>]

NoGrammar == Grammar("none", "", "", NoOpts)

Ok(g) == [tag |-> "Grammar", grammar |-> g]

Err(tag) == [tag |-> tag, grammar |-> NoGrammar]

what(tag) ==
  CASE tag = "GrammarSyntaxError" -> "what: grammar syntax"
    [] tag = "InvalidJSONError" -> "what: invalid JSON"
    [] tag = "InvalidJSONSchemaError" -> "what: invalid JSON schema"
    [] tag = "InvalidStructuralTagError" -> "what: invalid structural tag"
    [] tag = "DeserializeVersionError" -> "what: unsupported version"
    [] tag = "DeserializeFormatError" -> "what: malformed payload"
    [] OTHER -> "what: unknown"

BuiltinJSONGrammar == Ok(Grammar("builtin_json", "", "", NoOpts))

DefinedRules(text) ==
  CASE text = "root ::= a" -> {"root"}
    [] text = "main ::= a" -> {"main"}
    [] OTHER -> {}

FromEBNF(text, root_rule) ==
  IF text = "root ::= (" \/ root_rule \notin DefinedRules(text)
    THEN Err("GrammarSyntaxError")
    ELSE Ok(Grammar("ebnf", text, root_rule, NoOpts))

FromRegex(pattern, print_converted_ebnf) ==
  IF pattern = "a("
    THEN Err("GrammarSyntaxError")
    ELSE Ok(Grammar("regex", pattern, "root", NoOpts))

FromJSONSchema(schema, any_whitespace, indent_opt, separators_opt, strict_mode, max_ws_opt, print_converted_ebnf) ==
  IF schema # "{type:object}"
    THEN Err("InvalidJSONSchemaError")
    ELSE Ok(Grammar("json_schema", schema, "root",
                    [any_whitespace |-> any_whitespace,
                     indent_opt |-> indent_opt,
                     separators_opt |-> separators_opt,
                     strict_mode |-> strict_mode,
                     max_ws_opt |-> max_ws_opt]))

FromStructuralTag(json) ==
  CASE json = "{not json" -> Err("InvalidJSONError")
    [] json = "{tags:[bad schema]}" -> Err("InvalidJSONSchemaError")
    [] json = "{tags:[overlapping]}" -> Err("InvalidStructuralTagError")
    [] OTHER -> Ok(Grammar("structural_tag", json, "root", NoOpts))

DeserializeJSON(json) ==
  CASE json = "{not json" -> Err("InvalidJSONError")
    [] json \in {"{v:newer,g:ok}", "{v:newer,g:broken}"} ->
         Err("DeserializeVersionError")
    [] json = "{v:current,g:broken}" -> Err("DeserializeFormatError")
    [] OTHER -> Ok(Grammar("ebnf", "root ::= a", "root", NoOpts))

(***************************************************************************)
(* The bridge's grammar factories.  A call's outcome is what the caller    *)
(* has afterwards: whether the call returned, the handle, and the values   *)
(* written through the out-parameters (UNSET where nothing was written).   *)
(***************************************************************************)
variant_error_to_string(error) == what(error)

\* Mutant: the version and format alternatives are exchanged.
error_kind_from_serialization_Swapped(error) ==
  IF error = "DeserializeVersionError" THEN "XGRAMMAR_ERROR_DESERIALIZE_FORMAT"
  ELSE IF error = "DeserializeFormatError" THEN "XGRAMMAR_ERROR_DESERIALIZE_VERSION"
  ELSE IF error = "InvalidJSONError" THEN "XGRAMMAR_ERROR_INVALID_JSON"
  ELSE "XGRAMMAR_ERROR_UNKNOWN"

error_kind_from_serialization(error) ==
  IF error = "DeserializeVersionError" THEN "XGRAMMAR_ERROR_DESERIALIZE_VERSION"
  ELSE IF error = "DeserializeFormatError" THEN "XGRAMMAR_ERROR_DESERIALIZE_FORMAT"
  ELSE IF error = "InvalidJSONError" THEN "XGRAMMAR_ERROR_INVALID_JSON"
  ELSE "XGRAMMAR_ERROR_UNKNOWN"

\* Mutant: the first test is missing, so invalid JSON falls through.
error_kind_from_structural_tag_NoJSONCase(error) ==
  IF error = "InvalidJSONSchemaError" THEN "XGRAMMAR_ERROR_INVALID_JSON_SCHEMA"
  ELSE IF error \in {"InvalidStructuralTagError", "InvalidJSONError"}
    THEN "XGRAMMAR_ERROR_INVALID_STRUCTURAL_TAG"
  ELSE "XGRAMMAR_ERROR_UNKNOWN"

error_kind_from_structural_tag(error) ==
  IF error = "InvalidJSONError" THEN "XGRAMMAR_ERROR_INVALID_JSON"
  ELSE IF error = "InvalidJSONSchemaError" THEN "XGRAMMAR_ERROR_INVALID_JSON_SCHEMA"
  ELSE IF error = "InvalidStructuralTagError" THEN "XGRAMMAR_ERROR_INVALID_STRUCTURAL_TAG"
  ELSE "XGRAMMAR_ERROR_UNKNOWN"

\* `new xgrammar_grammar{result}`: the result of an engine factory whose
\* return type is the grammar itself.  The functions that use it have no
\* branch for a failed construction and no out-parameter to report one: the
\* failure leaves the function without a return value.
new_xgrammar_grammar(result) ==
  IF result.tag = "Grammar"
    THEN [returned |-> TRUE, handle |-> [null |-> FALSE, obj |-> result.grammar],
          out_error_kind |-> UNSET, out_error |-> UNSET]
    ELSE [returned |-> FALSE, handle |-> [null |-> TRUE, obj |-> NoGrammar],
          out_error_kind |-> UNSET, out_error |-> UNSET]

xgrammar_grammar_create_builtin_json == new_xgrammar_grammar(BuiltinJSONGrammar)

xgrammar_grammar_create_from_ebnf(ebnf, root_rule) ==
  new_xgrammar_grammar(FromEBNF(ebnf, IF root_rule # NULL THEN root_rule ELSE "root"))

xgrammar_grammar_create_from_regex(regex) ==
  new_xgrammar_grammar(FromRegex(regex, FALSE))

xgrammar_grammar_create_from_json_schema(schema, any_whitespace, has_indent, indent, has_separators, sep_item, sep_line, strict_mode, has_max_whitespace, max_whitespace, print_converted_ebnf) ==
  LET indent_opt == IF has_indent THEN [has_value |-> TRUE, value |-> indent]
                                  ELSE [has_value |-> FALSE, value |-> 0]
      separators_opt ==
        IF has_separators
          THEN [has_value |-> TRUE, first |-> sep_item, second |-> sep_line]
          ELSE [has_value |-> FALSE, first |-> "", second |-> ""]
      max_ws_opt == IF has_max_whitespace
                      THEN [has_value |-> TRUE, value |-> max_whitespace]
                      ELSE [has_value |-> FALSE, value |-> 0]
  IN  new_xgrammar_grammar(FromJSONSchema(schema, any_whitespace, indent_opt,
        separators_opt, strict_mode, max_ws_opt, print_converted_ebnf))

xgrammar_grammar_create_from_structural_tag(json, out_error_kind, out_error) ==
  LET result == FromStructuralTag(json)
  IN  IF result.tag = "Grammar"
        THEN [returned |-> TRUE,
              handle |-> [null |-> FALSE, obj |-> result.grammar],
              out_error_kind |-> IF out_error_kind # NULL THEN "XGRAMMAR_ERROR_NONE"
                                                          ELSE UNSET,
              out_error |-> UNSET]
        ELSE [returned |-> TRUE,
              handle |-> [null |-> TRUE, obj |-> NoGrammar],
              out_error_kind |-> IF out_error_kind # NULL
                                   THEN error_kind_from_structural_tag(result.tag)
                                   ELSE UNSET,
              out_error |-> IF out_error # NULL
                              THEN variant_error_to_string(result.tag)
                              ELSE UNSET]

xgrammar_grammar_create_from_serialized_json(json, out_error_kind, out_error) ==
  LET result == DeserializeJSON(json)
  IN  IF result.tag = "Grammar"
        THEN [returned |-> TRUE,
              handle |-> [null |-> FALSE, obj |-> result.grammar],
              out_error_kind |-> IF out_error_kind # NULL THEN "XGRAMMAR_ERROR_NONE"
                                                          ELSE UNSET,
              out_error |-> UNSET]
        ELSE [returned |-> TRUE,
              handle |-> [null |-> TRUE, obj |-> NoGrammar],
              out_error_kind |-> IF out_error_kind # NULL
                                   THEN error_kind_from_serialization(result.tag)
                                   ELSE UNSET,
              out_error |-> IF out_error # NULL
                              THEN variant_error_to_string(result.tag)
                              ELSE UNSET]

(***************************************************************************)
(* Composition.  Union and Concat (engine) follow the specification's      *)
(* component contract 4.1; a composed grammar holds the grammars it was    *)
(* built from, in order.  The language of a grammar is given over the      *)
(* strings of at most MaxStringLen bytes a and b.                          *)
(***************************************************************************)
MaxStringLen == 2

MaxParts == 2

Strings == UNION {[1..n -> {"a", "b"}] : n \in 0..MaxStringLen}

Union(grammars) == [Grammar("union", "", "root", NoOpts) EXCEPT !.parts = grammars]

Concat(grammars) == [Grammar("concat", "", "root", NoOpts) EXCEPT !.parts = grammars]

IsComposite(g) == g.src \in {"union", "concat"}

\* Whether s is in the language of g.  No string of a and b is a JSON
\* document, which is what the other constructions accept.
RECURSIVE Accepts(_, _)
RECURSIVE AcceptsInOrder(_, _)
Accepts(g, s) ==
  CASE g.src = "ebnf" -> s = <<"a">>
    [] g.src = "regex" -> s # <<>> /\ \A i \in 1..Len(s) : s[i] = "a"
    [] g.src = "union" -> \E i \in 1..Len(g.parts) : Accepts(g.parts[i], s)
    [] g.src = "concat" -> AcceptsInOrder(g.parts, s)
    [] OTHER -> FALSE

AcceptsInOrder(grammars, s) ==
  IF grammars = <<>> THEN s = <<>>
  ELSE \E k \in 0..Len(s) :
         /\ Accepts(Head(grammars), SubSeq(s, 1, k))
         /\ AcceptsInOrder(Tail(grammars), SubSeq(s, k + 1, Len(s)))

\* Mutant: every grammar of the array is passed, whatever count says.
xgrammar_grammar_create_union_IgnoresCount(grammars, count) ==
  new_xgrammar_grammar(Ok(Union(IF ~grammars.null THEN grammars.elems ELSE <<>>)))

xgrammar_grammar_create_union(grammars, count) ==
  LET vec == IF ~grammars.null /\ count > 0
               THEN [i \in 1..count |-> grammars.elems[i]]
               ELSE <<>>
  IN  new_xgrammar_grammar(Ok(Union(vec)))

xgrammar_grammar_create_concat(grammars, count) ==
  LET vec == IF ~grammars.null /\ count > 0
               THEN [i \in 1..count |-> grammars.elems[i]]
               ELSE <<>>
  IN  new_xgrammar_grammar(Ok(Concat(vec)))

GrammarUnionFromArray(grammars, grammar_count) ==
  LET grammar_vector == IF ~grammars.null /\ grammar_count > 0
                          THEN SubSeq(grammars.elems, 1, grammar_count)
                          ELSE <<>>
  IN  Union(grammar_vector)

GrammarConcatFromArray(grammars, grammar_count) ==
  LET grammar_vector == IF ~grammars.null /\ grammar_count > 0
                          THEN SubSeq(grammars.elems, 1, grammar_count)
                          ELSE <<>>
  IN  Concat(grammar_vector)

\* The arrays of handles a caller can pass: a null pointer, or up to
\* MaxParts of the grammars it holds that are not compositions themselves.
GrammarArrays(grammars) ==
  {[null |-> TRUE, elems |-> <<>>]}
    \cup {[null |-> FALSE, elems |-> e] :
            e \in UNION {[1..n -> {g \in grammars : ~IsComposite(g)}] : n \in 0..MaxParts}}

\* The counts passed with an array: any count the array can serve, none or
\* a negative one; with a null pointer the count is not looked at.
CountInputs(grammars) ==
  IF grammars.null THEN (0 - 1)..MaxParts ELSE (0 - 1)..Len(grammars.elems)

xgrammar_grammar_destroy(grammars, grammar) == grammars \ {grammar}

\* The caller's record of a factory call: which function, with what text,
\* which out-parameters it passed, and the outcome.
FactoryCall(op, input, root_rule, out_error_kind, out_error, outcome) ==
  [op |-> op, input |-> input, root_rule |-> root_rule,
   out_error_kind_arg |-> out_error_kind, out_error_arg |-> out_error,
   returned |-> outcome.returned, handle_null |-> outcome.handle.null,
   out_error_kind |-> outcome.out_error_kind, out_error |-> outcome.out_error]

NoFactoryCall ==
  [op |-> "none", input |-> "", root_rule |-> NULL,
   out_error_kind_arg |-> NULL, out_error_arg |-> NULL,
   returned |-> TRUE, handle_null |-> TRUE,
   out_error_kind |-> UNSET, out_error |-> UNSET]

Keep(grammars, outcome) ==
  IF outcome.returned /\ ~outcome.handle.null
    THEN grammars \cup {outcome.handle.obj}
    ELSE grammars

(***************************************************************************)
(* Tokenizer info.  The engine side (xgrammar::TokenizerInfo) follows the  *)
(* specification's component contract 4.2; an object holds its decoded     *)
(* vocabulary and its stop and special token ids as sequences, element 0   *)
(* of the code being element 1 here.                                       *)
(***************************************************************************)
MaxIndex == 6

EncodedVocab == <<"a", "b", "ab", "</s>", "<pad>", "b">>

StopArray == <<5, 3>>

IsSpecialText(text) == text \in {"</s>", "<pad>", "<s>"}

IsStopText(text) == text = "</s>"

RECURSIVE SetToSortedSeq(_)
SetToSortedSeq(S) ==
  IF S = {} THEN <<>>
  ELSE LET m == CHOOSE x \in S : \A y \in S : x <= y
       IN  <<m>> \o SetToSortedSeq(S \ {m})

\* The ids (from 0) of the stop / special texts of a vocabulary, increasing.
StopIdsOf(vocab) == SetToSortedSeq({i - 1 : i \in {j \in 1..Len(vocab) : IsStopText(vocab[j])}})

SpecialIdsOf(vocab) == SetToSortedSeq({i - 1 : i \in {j \in 1..Len(vocab) : IsSpecialText(vocab[j])}})

TokenizerInfo(encoded_vocab, vocab_type, vocab_size_opt, stop_opt, add_prefix_space) ==
  [decoded_vocab |-> encoded_vocab,
   vocab_type |-> vocab_type,
   vocab_size |-> IF vocab_size_opt.has_value THEN vocab_size_opt.value
                                              ELSE Len(encoded_vocab),
   stop_token_ids |-> IF stop_opt.has_value THEN stop_opt.value
                      ELSE StopIdsOf(encoded_vocab),
   special_token_ids |-> SpecialIdsOf(encoded_vocab),
   add_prefix_space |-> add_prefix_space]

NoTokenizerInfo ==
  TokenizerInfo(<<>>, "RAW", [has_value |-> FALSE, value |-> 0],
                [has_value |-> FALSE, value |-> <<>>], FALSE)

GetDecodedVocab(info) == info.decoded_vocab

TokenizerInfoGetStopTokenIds(info) == info.stop_token_ids

GetSpecialTokenIds(info) == info.special_token_ids

TokenizerInfoDeserializeJSON(json) ==
  CASE json = "{not json" -> [tag |-> "InvalidJSONError", obj |-> NoTokenizerInfo]
    [] json \in {"{v:newer,g:ok}", "{v:newer,g:broken}"} ->
         [tag |-> "DeserializeVersionError", obj |-> NoTokenizerInfo]
    [] json = "{v:current,g:broken}" ->
         [tag |-> "DeserializeFormatError", obj |-> NoTokenizerInfo]
    [] OTHER ->
         [tag |-> "TokenizerInfo",
          obj |-> TokenizerInfo(EncodedVocab, "RAW", [has_value |-> FALSE, value |-> 0],
                                [has_value |-> FALSE, value |-> <<>>], FALSE)]

\* A compiled grammar is named by the grammar it was compiled from; the
\* tokenizer info it was compiled against is supplied by the caller.
CompiledGrammarDeserializeJSON(json, tokenizer_info) ==
  CASE json = "{not json" -> [tag |-> "InvalidJSONError", obj |-> "none"]
    [] json \in {"{v:newer,g:ok}", "{v:newer,g:broken}"} ->
         [tag |-> "DeserializeVersionError", obj |-> "none"]
    [] json = "{v:current,g:broken}" -> [tag |-> "DeserializeFormatError", obj |-> "none"]
    [] OTHER -> [tag |-> "CompiledGrammar", obj |-> "ab_star"]

(***************************************************************************)
(* The bridge's tokenizer-info functions.                                  *)
(***************************************************************************)
to_string_vector(strings, count) ==
  IF ~strings.null /\ count > 0 THEN SubSeq(strings.elems, 1, count) ELSE <<>>

to_vocab_type(vt) ==
  CASE vt = "XGRAMMAR_VOCAB_BYTE_FALLBACK" -> "BYTE_FALLBACK"
    [] vt = "XGRAMMAR_VOCAB_BYTE_LEVEL" -> "BYTE_LEVEL"
    [] OTHER -> "RAW"

\* Mutant: has_stop_token_ids is ignored and the ids are always passed.
StopOpt_IgnoresHas(stop_token_ids, stop_token_count, has_stop_token_ids) ==
  IF ~stop_token_ids.null /\ stop_token_count > 0
    THEN [has_value |-> TRUE, value |-> SubSeq(stop_token_ids.elems, 1, stop_token_count)]
    ELSE [has_value |-> TRUE, value |-> <<>>]

StopOpt(stop_token_ids, stop_token_count, has_stop_token_ids) ==
  IF has_stop_token_ids
    THEN IF ~stop_token_ids.null /\ stop_token_count > 0
           THEN [has_value |-> TRUE,
                 value |-> SubSeq(stop_token_ids.elems, 1, stop_token_count)]
           ELSE [has_value |-> TRUE, value |-> <<>>]
    ELSE [has_value |-> FALSE, value |-> <<>>]

xgrammar_tokenizer_info_create(a) ==
  TokenizerInfo(to_string_vector(a.encoded_vocab, a.encoded_vocab_count),
                to_vocab_type(a.vocab_type),
                IF a.has_vocab_size THEN [has_value |-> TRUE, value |-> a.vocab_size]
                                    ELSE [has_value |-> FALSE, value |-> 0],
                StopOpt(a.stop_token_ids, a.stop_token_count, a.has_stop_token_ids),
                a.add_prefix_space)

CreateTokenizerInfoFromArray_stop_tokens_opt(stop_token_ids, stop_token_count, has_stop_token_ids) ==
  LET nullopt == [has_value |-> FALSE, value |-> <<>>]
  IN  IF ~has_stop_token_ids THEN nullopt
      ELSE IF ~stop_token_ids.null /\ stop_token_count > 0
      THEN [has_value |-> TRUE, value |-> SubSeq(stop_token_ids.elems, 1, stop_token_count)]
      ELSE [has_value |-> TRUE, value |-> <<>>]

\* a.vocab_type is a VocabType already.
CreateTokenizerInfoFromArray(a) ==
  TokenizerInfo(IF ~a.encoded_vocab.null /\ a.encoded_vocab_count > 0
                  THEN SubSeq(a.encoded_vocab.elems, 1, a.encoded_vocab_count)
                  ELSE <<>>,
                a.vocab_type,
                IF a.has_vocab_size THEN [has_value |-> TRUE, value |-> a.vocab_size]
                                    ELSE [has_value |-> FALSE, value |-> 0],
                CreateTokenizerInfoFromArray_stop_tokens_opt(
                  a.stop_token_ids, a.stop_token_count, a.has_stop_token_ids),
                a.add_prefix_space)

\* Mutant: on failure the message is written but the kind is not.
xgrammar_tokenizer_info_create_from_serialized_json_NoKind(json, out_error_kind, out_error) ==
  LET result == TokenizerInfoDeserializeJSON(json)
  IN  IF result.tag = "TokenizerInfo"
        THEN [returned |-> TRUE,
              handle |-> [null |-> FALSE, obj |-> result.obj],
              out_error_kind |-> IF out_error_kind # NULL THEN "XGRAMMAR_ERROR_NONE"
                                                          ELSE UNSET,
              out_error |-> UNSET]
        ELSE [returned |-> TRUE,
              handle |-> [null |-> TRUE, obj |-> NoTokenizerInfo],
              out_error_kind |-> UNSET,
              out_error |-> IF out_error # NULL
                              THEN variant_error_to_string(result.tag)
                              ELSE UNSET]

xgrammar_tokenizer_info_create_from_serialized_json(json, out_error_kind, out_error) ==
  LET result == TokenizerInfoDeserializeJSON(json)
  IN  IF result.tag = "TokenizerInfo"
        THEN [returned |-> TRUE,
              handle |-> [null |-> FALSE, obj |-> result.obj],
              out_error_kind |-> IF out_error_kind # NULL THEN "XGRAMMAR_ERROR_NONE"
                                                          ELSE UNSET,
              out_error |-> UNSET]
        ELSE [returned |-> TRUE,
              handle |-> [null |-> TRUE, obj |-> NoTokenizerInfo],
              out_error_kind |-> IF out_error_kind # NULL
                                   THEN error_kind_from_serialization(result.tag)
                                   ELSE UNSET,
              out_error |-> IF out_error # NULL
                              THEN variant_error_to_string(result.tag)
                              ELSE UNSET]

xgrammar_compiled_grammar_create_from_serialized_json(json, tokenizer_info, out_error_kind, out_error) ==
  LET result == CompiledGrammarDeserializeJSON(json, tokenizer_info.obj)
  IN  IF result.tag = "CompiledGrammar"
        THEN [returned |-> TRUE,
              handle |-> [null |-> FALSE, obj |-> result.obj],
              out_error_kind |-> IF out_error_kind # NULL THEN "XGRAMMAR_ERROR_NONE"
                                                          ELSE UNSET,
              out_error |-> UNSET]
        ELSE [returned |-> TRUE,
              handle |-> [null |-> TRUE, obj |-> result.obj],
              out_error_kind |-> IF out_error_kind # NULL
                                   THEN error_kind_from_serialization(result.tag)
                                   ELSE UNSET,
              out_error |-> IF out_error # NULL
                              THEN variant_error_to_string(result.tag)
                              ELSE UNSET]

xgrammar_tokenizer_info_decoded_vocab_count(info) == Len(GetDecodedVocab(info))

xgrammar_tokenizer_info_decoded_vocab_at(info, index) ==
  LET vocab == GetDecodedVocab(info)
  IN  IF index < 0 \/ index >= Len(vocab) THEN "" ELSE vocab[index + 1]

xgrammar_tokenizer_info_stop_token_ids_count(info) == Len(TokenizerInfoGetStopTokenIds(info))

\* Mutant: an index out of range gives -1.
xgrammar_tokenizer_info_stop_token_id_at_MinusOne(info, index) ==
  LET ids == TokenizerInfoGetStopTokenIds(info)
  IN  IF index < 0 \/ index >= Len(ids) THEN 0 - 1 ELSE ids[index + 1]

xgrammar_tokenizer_info_stop_token_id_at(info, index) ==
  LET ids == TokenizerInfoGetStopTokenIds(info)
  IN  IF index < 0 \/ index >= Len(ids) THEN 0 ELSE ids[index + 1]

xgrammar_tokenizer_info_special_token_ids_count(info) == Len(GetSpecialTokenIds(info))

xgrammar_tokenizer_info_special_token_id_at(info, index) ==
  LET ids == GetSpecialTokenIds(info)
  IN  IF index < 0 \/ index >= Len(ids) THEN 0 ELSE ids[index + 1]

xgrammar_matcher_stop_token_ids_count(m) == Len(GetStopTokenIds(m))

xgrammar_matcher_stop_token_id_at(m, index) ==
  LET ids == GetStopTokenIds(m)
  IN  IF index < 0 \/ index >= Len(ids) THEN 0 ELSE ids[index + 1]

(***************************************************************************)
(* The same accessors in the Swift shims (swift_shims.cc).                 *)
(***************************************************************************)
TokenizerInfoDecodedVocabAt(tokenizer_info, index) ==
  LET vocab == GetDecodedVocab(tokenizer_info)
  IN  IF index < 0 \/ index >= Len(vocab) THEN "" ELSE vocab[index + 1]

TokenizerInfoStopTokenIdAt(tokenizer_info, index) ==
  LET values == TokenizerInfoGetStopTokenIds(tokenizer_info)
  IN  IF index < 0 \/ index >= Len(values) THEN 0 ELSE values[index + 1]

TokenizerInfoSpecialTokenIdAt(tokenizer_info, index) ==
  LET values == GetSpecialTokenIds(tokenizer_info)
  IN  IF index < 0 \/ index >= Len(values) THEN 0 ELSE values[index + 1]

GrammarMatcherStopTokenIdAt(m, index) ==
  LET values == GetStopTokenIds(m)
  IN  IF index < 0 \/ index >= Len(values) THEN 0 ELSE values[index + 1]

\* The arguments tokenizer infos are created with: the vocabulary array
\* (is null, count) and the stop ids (has, is null, count).
VocabInputs == {<<FALSE, Len(EncodedVocab)>>, <<TRUE, Len(EncodedVocab)>>, <<FALSE, 3>>}

StopInputs ==
  {<<has, ptr_null, cnt>> : has \in BOOLEAN, ptr_null \in BOOLEAN, cnt \in (0 - 1)..Len(StopArray)}

IndexInputs == (0 - 1)..MaxIndex

(***************************************************************************)
(* The grammar compiler.  The engine side (xgrammar::GrammarCompiler)      *)
(* follows the specification's component contract 4.3 and concurrency      *)
(* model 5: a cache of compiled grammars in least-recently-used order      *)
(* (least recent first), looked up, inserted into and cleared atomically,  *)
(* and compilations that run between their lookup and their insert.        *)
(***************************************************************************)
NumThreads == 2

Threads == 1..NumThreads

CompileInputs == Grammars

LimitInputs == {4, 6}

MemorySizeBytes(cg) ==
  CASE cg = "ab_star" -> 2
    [] cg = "a_then_b" -> 3
    [] OTHER -> 5

GrammarCompiler(tokenizer_info, max_threads, cache_enabled, max_memory_bytes) ==
  [tokenizer_info |-> tokenizer_info, max_threads |-> max_threads,
   cache_enabled |-> cache_enabled, max_memory_bytes |-> max_memory_bytes,
   cache |-> <<>>, cache_size |-> 0]

NoCompiler == GrammarCompiler(NoTokenizerInfo, 0, FALSE, 0)

CacheKeys(c) == {c.cache[i].key : i \in 1..Len(c.cache)}

GetCacheSizeBytes(c) == c.cache_size

CacheLimitBytes(c) == c.max_memory_bytes

\* A hit makes the entry the most recently used one.
Lookup(c, key) ==
  IF c.cache_enabled /\ key \in CacheKeys(c)
    THEN LET i == CHOOSE j \in 1..Len(c.cache) : c.cache[j].key = key
             rest == [j \in 1..(Len(c.cache) - 1) |->
                        IF j < i THEN c.cache[j] ELSE c.cache[j + 1]]
         IN  [hit |-> TRUE, entry |-> c.cache[i],
              c |-> [c EXCEPT !.cache = Append(rest, c.cache[i])]]
    ELSE [hit |-> FALSE, entry |-> [key |-> key, size |-> 0, pre_clear |-> FALSE], c |-> c]

\* Least-recently-used entries go until the new entry fits or none is left.
RECURSIVE Evict(_, _)
Evict(c, size) ==
  IF c.cache = <<>> \/ c.cache_size + size <= c.max_memory_bytes THEN c
  ELSE Evict([c EXCEPT !.cache = Tail(c.cache),
                       !.cache_size = c.cache_size - Head(c.cache).size], size)

Insert(c, key, size) ==
  IF ~c.cache_enabled \/ key \in CacheKeys(c) THEN c
  ELSE LET e == Evict(c, size)
       IN  [e EXCEPT !.cache = Append(e.cache, [key |-> key, size |-> size,
                                                pre_clear |-> FALSE]),
                     !.cache_size = e.cache_size + size]

ClearCache(c) == [c EXCEPT !.cache = <<>>, !.cache_size = 0]

\* A Compile* call in its two phases: "call" looks the key up and returns
\* on a hit; "complete" ends the compilation a miss started and inserts its
\* result.  Whether a compilation that a ClearCache overtook still inserts
\* is left open by the specification: after_clear is "insert" or "discard".
Compile(c, key, phase, cleared, after_clear) ==
  IF phase = "call"
    THEN LET l == Lookup(c, key)
         IN  [c |-> l.c, done |-> l.hit, hit |-> l.hit, pre_clear |-> l.entry.pre_clear,
              compiled_grammar |-> key]
    ELSE [c |-> IF cleared /\ after_clear = "discard" THEN c
                ELSE Insert(c, key, MemorySizeBytes(key)),
          done |-> TRUE, hit |-> FALSE, pre_clear |-> FALSE, compiled_grammar |-> key]

CompileGrammar(c, grammar, phase, cleared, after_clear) ==
  Compile(c, grammar, phase, cleared, after_clear)

CompileBuiltinJSONGrammar(c, phase, cleared, after_clear) ==
  Compile(c, "builtin_json", phase, cleared, after_clear)

(***************************************************************************)
(* The bridge's compiler functions.                                        *)
(***************************************************************************)
\* Mutant: max_threads and max_memory_bytes are passed in each other's place.
xgrammar_compiler_create_ArgsSwapped(tokenizer_info, max_threads, cache_enabled, max_memory_bytes) ==
  GrammarCompiler(tokenizer_info.obj, max_memory_bytes, cache_enabled, max_threads)

\* Mutant: the cache is enabled whatever cache_enabled says.
xgrammar_compiler_create_CacheAlwaysOn(tokenizer_info, max_threads, cache_enabled, max_memory_bytes) ==
  GrammarCompiler(tokenizer_info.obj, max_threads, TRUE, max_memory_bytes)

xgrammar_compiler_create(tokenizer_info, max_threads, cache_enabled, max_memory_bytes) ==
  GrammarCompiler(tokenizer_info.obj, max_threads, cache_enabled, max_memory_bytes)

xgrammar_compiler_compile_grammar(c, grammar, phase, cleared, after_clear) ==
  CompileGrammar(c, grammar, phase, cleared, after_clear)

xgrammar_compiler_compile_builtin_json(c, phase, cleared, after_clear) ==
  CompileBuiltinJSONGrammar(c, phase, cleared, after_clear)

xgrammar_compiler_cache_size(c) == GetCacheSizeBytes(c)

xgrammar_compiler_cache_limit(c) == CacheLimitBytes(c)

\* Mutant: the call to the engine is missing.
xgrammar_compiler_clear_cache_NoCall(c) == c

xgrammar_compiler_clear_cache(c) == ClearCache(c)

\* A caller thread: idle, or inside a Compile* call that missed the cache.
IdleThread ==
  [pc |-> "idle", op |-> "none", key |-> "none", cleared |-> FALSE,
   hit |-> FALSE, saw_pre_clear |-> FALSE]

Computing(ts) == {t \in Threads : ts[t].pc = "computing"}

\* A call that did not return ended the process: nothing runs after it.
Alive == factory.returned

InitCaller ==
  /\ \E g \in Grammars, ov \in OverrideInputs, tws \in BOOLEAN, mrt \in 0..MaxRollback :
       create_args = [compiled_grammar |-> g,
                      override_stop_tokens |-> [null |-> ov[2], elems |-> OverrideArray],
                      override_stop_token_count |-> ov[3],
                      has_override_stop_tokens |-> ov[1],
                      terminate_without_stop_token |-> tws,
                      max_rollback_tokens |-> mrt]
  /\ matcher = xgrammar_matcher_create(create_args)
  /\ buffer = [i \in 1..(NumRows * RowLength) |-> PoisonWord]
  /\ accepted = <<>>
  /\ last_call = NoCall
  /\ held = {}
  /\ factory = NoFactoryCall
  /\ compiler = [null |-> TRUE, obj |-> NoCompiler,
                 args |-> [max_threads |-> 0, cache_enabled |-> FALSE, max_memory_bytes |-> 0]]
  /\ threads = [t \in Threads |-> IdleThread]

Init ==
  /\ InitCaller
  /\ held_info = [null |-> TRUE, obj |-> NoTokenizerInfo]

AcceptTokenCall ==
  /\ Alive
  /\ \E id \in TokenInputs :
    LET r == xgrammar_matcher_accept_token(matcher, id)
    IN /\ ConsumedBytes(matcher) + Len(DecodedVocab(id)) <= MaxBytes
       /\ matcher' = r.m
       /\ accepted' = IF r.ret THEN Append(accepted, Entry(matcher, id))
                      ELSE accepted
       /\ last_call' = [NoCall EXCEPT !.op = "accept_token", !.ret = B2S(r.ret),
                                      !.token_id = id]
       /\ UNCHANGED <<create_args, buffer, held, factory, held_info, compiler, threads>>

AcceptStringCall ==
  /\ Alive
  /\ \E s \in StringInputs :
    LET r == xgrammar_matcher_accept_string(matcher, s)
    IN /\ ConsumedBytes(matcher) + Len(s) <= MaxBytes
       /\ matcher' = r.m
       /\ accepted' = IF r.ret THEN Append(accepted, [stop |-> FALSE, str |-> s])
                      ELSE accepted
       /\ last_call' = [NoCall EXCEPT !.op = "accept_string", !.ret = B2S(r.ret), !.str = s]
       /\ UNCHANGED <<create_args, buffer, held, factory, held_info, compiler, threads>>

FillCall ==
  /\ Alive
  /\ \E a \in FillInputs :
    LET hnull == a[1]
        data == a[2]
        cnt == a[3]
        idx == a[4]
        r == xgrammar_matcher_fill_next_token_bitmask(
               [null |-> hnull, obj |-> matcher], data, buffer, cnt, idx)
    IN /\ buffer' = r.mem
       /\ last_call' = [NoCall EXCEPT !.op = "fill", !.ret = r.ret, !.handle_null = hnull,
                                      !.data = data, !.count = cnt, !.index = idx]
       /\ UNCHANGED <<create_args, matcher, accepted, held, factory, held_info, compiler, threads>>

swift_api_FillNextTokenBitmaskCall ==
  /\ Alive
  /\ \E a \in FillInputs, debug_print \in BOOLEAN :
    LET hnull == a[1]
        data == a[2]
        cnt == a[3]
        idx == a[4]
        r == swift_api_FillNextTokenBitmask(
               [null |-> hnull, obj |-> matcher], data, buffer, cnt, idx, debug_print)
    IN /\ buffer' = r.mem
       /\ last_call' = [NoCall EXCEPT !.op = "swift_api::FillNextTokenBitmask",
                                      !.ret = r.ret, !.handle_null = hnull, !.data = data,
                                      !.count = cnt, !.index = idx,
                                      !.debug_print = debug_print]
       /\ UNCHANGED <<create_args, matcher, accepted, held, factory, held_info, compiler, threads>>

\* A matcher made through the shim takes the place of the one held, with a
\* buffer newly allocated for it.
CreateGrammarMatcherFromArrayCall ==
  /\ Alive
  /\ \E ov \in OverrideInputs :
    LET a == [create_args EXCEPT !.override_stop_tokens = [null |-> ov[2], elems |-> OverrideArray],
                                 !.override_stop_token_count = ov[3],
                                 !.has_override_stop_tokens = ov[1]]
    IN /\ create_args' = a
       /\ matcher' = CreateGrammarMatcherFromArray(a)
       /\ accepted' = <<>>
       /\ buffer' = [i \in 1..(NumRows * RowLength) |-> PoisonWord]
       /\ last_call' = [NoCall EXCEPT !.op = "CreateGrammarMatcherFromArray"]
       /\ UNCHANGED <<held, factory, held_info, compiler, threads>>

RollbackCall ==
  /\ Alive
  /\ \E n \in (-1)..(MaxRollback + 1), handling \in {"reject", "clamp"} :
    LET m2 == xgrammar_matcher_rollback(matcher, n, handling)
        undone == Len(matcher.token_length_history) - Len(m2.token_length_history)
    IN /\ matcher' = m2
       /\ accepted' = DropLastN(accepted,
                                IF n >= 1 /\ n <= Len(matcher.token_length_history)
                                THEN n ELSE undone)
       /\ last_call' = [NoCall EXCEPT !.op = "rollback", !.num_tokens = n, !.undone = undone,
                                      !.avail = Len(matcher.token_length_history)]
       /\ UNCHANGED <<create_args, buffer, held, factory, held_info, compiler, threads>>

FindJumpForwardStringCall ==
  /\ Alive
  /\ LET r == xgrammar_matcher_find_jump_forward_string(matcher)
     IN  /\ matcher' = r.m
         /\ last_call' = [NoCall EXCEPT !.op = "find_jump_forward_string", !.str = r.str]
  /\ UNCHANGED <<create_args, buffer, accepted, held, factory, held_info, compiler, threads>>

ResetCall ==
  /\ Alive
  /\ matcher' = xgrammar_matcher_reset(matcher)
  /\ accepted' = <<>>
  /\ last_call' = [NoCall EXCEPT !.op = "reset",
                                 !.avail = Len(matcher.token_length_history)]
  /\ UNCHANGED <<create_args, buffer, held, factory, held_info, compiler, threads>>

CreateBuiltinJSONCall ==
  /\ Alive
  /\ Cardinality(held) < MaxHeld
  /\ LET out == xgrammar_grammar_create_builtin_json
     IN  /\ held' = Keep(held, out)
         /\ factory' = FactoryCall("builtin_json", "", NULL, NULL, NULL, out)
  /\ UNCHANGED <<create_args, matcher, buffer, accepted, last_call, held_info, compiler, threads>>

CreateFromEBNFCall ==
  /\ Alive
  /\ Cardinality(held) < MaxHeld
  /\ \E ebnf \in EBNFInputs, root_rule \in RootRuleInputs :
       LET out == xgrammar_grammar_create_from_ebnf(ebnf, root_rule)
       IN  /\ held' = Keep(held, out)
           /\ factory' = FactoryCall("from_ebnf", ebnf, root_rule, NULL, NULL, out)
  /\ UNCHANGED <<create_args, matcher, buffer, accepted, last_call, held_info, compiler, threads>>

CreateFromRegexCall ==
  /\ Alive
  /\ Cardinality(held) < MaxHeld
  /\ \E regex \in RegexInputs :
       LET out == xgrammar_grammar_create_from_regex(regex)
       IN  /\ held' = Keep(held, out)
           /\ factory' = FactoryCall("from_regex", regex, NULL, NULL, NULL, out)
  /\ UNCHANGED <<create_args, matcher, buffer, accepted, last_call, held_info, compiler, threads>>

CreateFromJSONSchemaCall ==
  /\ Alive
  /\ Cardinality(held) < MaxHeld
  /\ \E schema \in SchemaInputs, any_whitespace \in BOOLEAN, has_indent \in BOOLEAN,
        has_separators \in BOOLEAN, strict_mode \in BOOLEAN :
       LET out == xgrammar_grammar_create_from_json_schema(schema, any_whitespace,
                    has_indent, 2, has_separators, ",", ":", strict_mode,
                    FALSE, 0, FALSE)
       IN  /\ held' = Keep(held, out)
           /\ factory' = FactoryCall("from_json_schema", schema, NULL, NULL, NULL, out)
  /\ UNCHANGED <<create_args, matcher, buffer, accepted, last_call, held_info, compiler, threads>>

CreateFromStructuralTagCall ==
  /\ Alive
  /\ Cardinality(held) < MaxHeld
  /\ \E json \in StructuralTagInputs, out_error_kind \in {NULL, PTR},
        out_error \in {NULL, PTR} :
       LET out == xgrammar_grammar_create_from_structural_tag(json, out_error_kind,
                                                              out_error)
       IN  /\ held' = Keep(held, out)
           /\ factory' = FactoryCall("from_structural_tag", json, NULL,
                                     out_error_kind, out_error, out)
  /\ UNCHANGED <<create_args, matcher, buffer, accepted, last_call, held_info, compiler, threads>>

CreateFromSerializedJSONCall ==
  /\ Alive
  /\ Cardinality(held) < MaxHeld
  /\ \E json \in SerializedInputs, out_error_kind \in {NULL, PTR},
        out_error \in {NULL, PTR} :
       LET out == xgrammar_grammar_create_from_serialized_json(json, out_error_kind,
                                                               out_error)
       IN  /\ held' = Keep(held, out)
           /\ factory' = FactoryCall("from_serialized_json", json, NULL,
                                     out_error_kind, out_error, out)
  /\ UNCHANGED <<create_args, matcher, buffer, accepted, last_call, held_info, compiler, threads>>

CreateUnionCall ==
  /\ Alive
  /\ Cardinality(held) <= MaxHeld
  /\ \E grammars \in GrammarArrays(held) :
       \E count \in CountInputs(grammars) :
         LET out == xgrammar_grammar_create_union(grammars, count)
         IN  /\ held' = Keep(held, out)
             /\ factory' = FactoryCall("create_union", "", NULL, NULL, NULL, out)
             /\ last_call' = [NoCall EXCEPT !.op = "create_union",
                                !.combine_args = [null |-> grammars.null,
                                                  elems |-> grammars.elems, count |-> count]]
  /\ UNCHANGED <<create_args, matcher, buffer, accepted, held_info, compiler, threads>>

CreateConcatCall ==
  /\ Alive
  /\ Cardinality(held) <= MaxHeld
  /\ \E grammars \in GrammarArrays(held) :
       \E count \in CountInputs(grammars) :
         LET out == xgrammar_grammar_create_concat(grammars, count)
         IN  /\ held' = Keep(held, out)
             /\ factory' = FactoryCall("create_concat", "", NULL, NULL, NULL, out)
             /\ last_call' = [NoCall EXCEPT !.op = "create_concat",
                                !.combine_args = [null |-> grammars.null,
                                                  elems |-> grammars.elems, count |-> count]]
  /\ UNCHANGED <<create_args, matcher, buffer, accepted, held_info, compiler, threads>>

DestroyGrammarCall ==
  /\ Alive
  /\ \E grammar \in held :
       held' = xgrammar_grammar_destroy(held, grammar)
  /\ UNCHANGED <<create_args, matcher, buffer, accepted, last_call, factory, held_info, compiler, threads>>

CreateTokenizerInfoFromSerializedJSONCall ==
  /\ Alive
  /\ \E json \in SerializedInputs, out_error_kind \in {NULL, PTR},
        out_error \in {NULL, PTR} :
       LET out == xgrammar_tokenizer_info_create_from_serialized_json(json, out_error_kind,
                                                                      out_error)
       IN  /\ held_info' = IF out.handle.null THEN held_info ELSE out.handle
           /\ factory' = FactoryCall("tokenizer_info_from_serialized_json", json, NULL,
                                     out_error_kind, out_error, out)
  /\ UNCHANGED <<create_args, matcher, buffer, accepted, last_call, held, compiler, threads>>

CreateCompiledGrammarFromSerializedJSONCall ==
  /\ Alive
  /\ ~held_info.null
  /\ \E json \in SerializedInputs, out_error_kind \in {NULL, PTR},
        out_error \in {NULL, PTR} :
       LET out == xgrammar_compiled_grammar_create_from_serialized_json(json, held_info,
                    out_error_kind, out_error)
       IN  factory' = FactoryCall("compiled_grammar_from_serialized_json", json, NULL,
                                  out_error_kind, out_error, out)
  /\ UNCHANGED <<create_args, matcher, buffer, accepted, last_call, held, held_info, compiler, threads>>

TokenizerInfoCreateCall ==
  /\ Alive
  /\ \E v \in VocabInputs, st \in StopInputs, has_vocab_size \in BOOLEAN :
       LET a == [encoded_vocab |-> [null |-> v[1], elems |-> EncodedVocab],
                 encoded_vocab_count |-> v[2],
                 vocab_type |-> "XGRAMMAR_VOCAB_RAW",
                 vocab_size |-> Len(EncodedVocab) + 2,
                 has_vocab_size |-> has_vocab_size,
                 stop_token_ids |-> [null |-> st[2], elems |-> StopArray],
                 stop_token_count |-> st[3],
                 has_stop_token_ids |-> st[1],
                 add_prefix_space |-> FALSE]
       IN  /\ held_info' = [null |-> FALSE, obj |-> xgrammar_tokenizer_info_create(a)]
           /\ last_call' = [NoCall EXCEPT !.op = "tokenizer_info_create", !.info_args = a]
  /\ UNCHANGED <<create_args, matcher, buffer, accepted, held, factory, compiler, threads>>

CreateTokenizerInfoFromArrayCall ==
  /\ Alive
  /\ \E v \in VocabInputs, st \in StopInputs, has_vocab_size \in BOOLEAN :
       LET a == [encoded_vocab |-> [null |-> v[1], elems |-> EncodedVocab],
                 encoded_vocab_count |-> v[2],
                 vocab_type |-> "RAW",
                 vocab_size |-> Len(EncodedVocab) + 2,
                 has_vocab_size |-> has_vocab_size,
                 stop_token_ids |-> [null |-> st[2], elems |-> StopArray],
                 stop_token_count |-> st[3],
                 has_stop_token_ids |-> st[1],
                 add_prefix_space |-> FALSE]
       IN  /\ held_info' = [null |-> FALSE, obj |-> CreateTokenizerInfoFromArray(a)]
           /\ last_call' = [NoCall EXCEPT !.op = "CreateTokenizerInfoFromArray",
                                          !.info_args = a]
  /\ UNCHANGED <<create_args, matcher, buffer, accepted, held, factory, compiler, threads>>

DecodedVocabAtCall ==
  /\ Alive
  /\ ~held_info.null
  /\ \E index \in IndexInputs :
       last_call' = [NoCall EXCEPT !.op = "decoded_vocab_at", !.index = index,
                       !.at_text = xgrammar_tokenizer_info_decoded_vocab_at(held_info.obj, index)]
  /\ UNCHANGED <<create_args, matcher, buffer, accepted, held, factory, held_info, compiler, threads>>

StopTokenIdAtCall ==
  /\ Alive
  /\ ~held_info.null
  /\ \E index \in IndexInputs :
       last_call' = [NoCall EXCEPT !.op = "stop_token_id_at", !.index = index,
                       !.at_value = xgrammar_tokenizer_info_stop_token_id_at(held_info.obj, index)]
  /\ UNCHANGED <<create_args, matcher, buffer, accepted, held, factory, held_info, compiler, threads>>

SpecialTokenIdAtCall ==
  /\ Alive
  /\ ~held_info.null
  /\ \E index \in IndexInputs :
       last_call' = [NoCall EXCEPT !.op = "special_token_id_at", !.index = index,
                       !.at_value = xgrammar_tokenizer_info_special_token_id_at(held_info.obj, index)]
  /\ UNCHANGED <<create_args, matcher, buffer, accepted, held, factory, held_info, compiler, threads>>

MatcherStopTokenIdAtCall ==
  /\ Alive
  /\ \E index \in IndexInputs :
       last_call' = [NoCall EXCEPT !.op = "matcher_stop_token_id_at", !.index = index,
                       !.at_value = xgrammar_matcher_stop_token_id_at(matcher, index)]
  /\ UNCHANGED <<create_args, matcher, buffer, accepted, held, factory, held_info, compiler, threads>>

GetBitmaskSizeCall ==
  /\ Alive
  /\ \E vocab_size \in VocabSizeInputs :
       last_call' = [NoCall EXCEPT !.op = "get_bitmask_size", !.vocab_size = vocab_size,
                       !.bitmask_size = xgrammar_get_bitmask_size(vocab_size)]
  /\ UNCHANGED <<create_args, matcher, buffer, accepted, held, factory, held_info, compiler, threads>>

CompilerCreateCall ==
  /\ Alive
  /\ compiler.null
  /\ ~held_info.null
  /\ \E max_threads \in 1..NumThreads, cache_enabled \in BOOLEAN, max_memory_bytes \in LimitInputs :
       compiler' = [null |-> FALSE,
                    obj |-> xgrammar_compiler_create(held_info, max_threads, cache_enabled, max_memory_bytes),
                    args |-> [max_threads |-> max_threads, cache_enabled |-> cache_enabled,
                              max_memory_bytes |-> max_memory_bytes]]
  /\ UNCHANGED <<create_args, matcher, buffer, accepted, last_call, held, factory, held_info, threads>>

\* The call phase of a Compile* call of thread t: a hit returns at once, a
\* miss takes a worker of the pool and waits while none is free.
CompileBegins(t, op, key, r) ==
  /\ r.done \/ Cardinality(Computing(threads)) < compiler.obj.max_threads
  /\ compiler' = [compiler EXCEPT !.obj = r.c]
  /\ threads' = [threads EXCEPT ![t] =
                   [pc |-> IF r.done THEN "idle" ELSE "computing", op |-> op, key |-> key,
                    cleared |-> FALSE, hit |-> r.hit, saw_pre_clear |-> r.hit /\ r.pre_clear]]

CompileGrammarCall ==
  /\ Alive
  /\ ~compiler.null
  /\ \E t \in Threads, grammar \in CompileInputs :
       /\ threads[t].pc = "idle"
       /\ CompileBegins(t, "compile_grammar", grammar,
            xgrammar_compiler_compile_grammar(compiler.obj, grammar, "call", FALSE, "insert"))
  /\ UNCHANGED <<create_args, matcher, buffer, accepted, last_call, held, factory, held_info>>

CompileBuiltinJSONCall ==
  /\ Alive
  /\ ~compiler.null
  /\ \E t \in Threads :
       /\ threads[t].pc = "idle"
       /\ CompileBegins(t, "compile_builtin_json", "builtin_json",
            xgrammar_compiler_compile_builtin_json(compiler.obj, "call", FALSE, "insert"))
  /\ UNCHANGED <<create_args, matcher, buffer, accepted, last_call, held, factory, held_info>>

\* The compilation of thread t ends and its Compile* call returns.
CompileReturn ==
  /\ Alive
  /\ \E t \in Threads, after_clear \in {"insert", "discard"} :
       /\ threads[t].pc = "computing"
       /\ LET th == threads[t]
              r == IF th.op = "compile_grammar"
                     THEN xgrammar_compiler_compile_grammar(compiler.obj, th.key, "complete",
                                                            th.cleared, after_clear)
                     ELSE xgrammar_compiler_compile_builtin_json(compiler.obj, "complete",
                                                                 th.cleared, after_clear)
          IN  /\ compiler' = [compiler EXCEPT !.obj = r.c]
              /\ threads' = [threads EXCEPT ![t] =
                               [th EXCEPT !.pc = "idle", !.cleared = FALSE, !.hit = FALSE,
                                          !.saw_pre_clear = FALSE]]
  /\ UNCHANGED <<create_args, matcher, buffer, accepted, last_call, held, factory, held_info>>

\* Entries a ClearCache call left behind are marked, and so is every
\* compilation that was running during the call.
MarkPreClear(c) ==
  [c EXCEPT !.cache = [i \in 1..Len(c.cache) |-> [c.cache[i] EXCEPT !.pre_clear = TRUE]]]

ClearCacheCall ==
  /\ Alive
  /\ ~compiler.null
  /\ compiler' = [compiler EXCEPT !.obj = MarkPreClear(xgrammar_compiler_clear_cache(compiler.obj))]
  /\ threads' = [t \in Threads |->
                   IF threads[t].pc = "computing" THEN [threads[t] EXCEPT !.cleared = TRUE]
                   ELSE threads[t]]
  /\ UNCHANGED <<create_args, matcher, buffer, accepted, last_call, held, factory, held_info>>

Next ==
  \/ AcceptTokenCall
  \/ AcceptStringCall
  \/ FillCall
  \/ RollbackCall
  \/ ResetCall
  \/ CreateBuiltinJSONCall
  \/ CreateFromEBNFCall
  \/ CreateFromRegexCall
  \/ CreateFromJSONSchemaCall
  \/ CreateFromStructuralTagCall
  \/ CreateFromSerializedJSONCall
  \/ DestroyGrammarCall
  \/ CreateTokenizerInfoFromSerializedJSONCall
  \/ CreateCompiledGrammarFromSerializedJSONCall
  \/ TokenizerInfoCreateCall
  \/ DecodedVocabAtCall
  \/ StopTokenIdAtCall
  \/ SpecialTokenIdAtCall
  \/ MatcherStopTokenIdAtCall
  \/ CompilerCreateCall
  \/ CompileGrammarCall
  \/ CompileBuiltinJSONCall
  \/ CompileReturn
  \/ ClearCacheCall
  \/ CreateUnionCall
  \/ CreateConcatCall
  \/ GetBitmaskSizeCall
  \/ FindJumpForwardStringCall
  \/ swift_api_FillNextTokenBitmaskCall
  \/ CreateGrammarMatcherFromArrayCall
  \/ CreateTokenizerInfoFromArrayCall

Spec == Init /\ [][Next]_vars

\* The matcher alone: the calls that change it, the buffer left as allocated.
NextMatcher ==
  \/ AcceptTokenCall
  \/ AcceptStringCall
  \/ RollbackCall
  \/ ResetCall

SpecMatcher == Init /\ [][NextMatcher]_vars

\* The bitmask alone: a matcher without rollback horizon, fed tokens and
\* reset, and FillNextTokenBitmask called in every state it reaches.
InitFill == Init /\ create_args.max_rollback_tokens = 0

NextFill ==
  \/ AcceptTokenCall
  \/ FillCall
  \/ ResetCall

SpecFill == InitFill /\ [][NextFill]_vars

\* Grammar construction alone: the factories and the destructor, beside one
\* matcher that is left as created.
InitFactory ==
  /\ Init
  /\ create_args.compiled_grammar = "ab_star"
  /\ ~create_args.has_override_stop_tokens
  /\ ~create_args.terminate_without_stop_token
  /\ create_args.max_rollback_tokens = 0

NextFactory ==
  \/ CreateBuiltinJSONCall
  \/ CreateFromEBNFCall
  \/ CreateFromRegexCall
  \/ CreateFromJSONSchemaCall
  \/ CreateFromStructuralTagCall
  \/ CreateFromSerializedJSONCall
  \/ DestroyGrammarCall

SpecFactory == InitFactory /\ [][NextFactory]_vars

\* The constructors that report failure through out-parameters.
NextFallible ==
  \/ CreateFromStructuralTagCall
  \/ CreateFromSerializedJSONCall
  \/ CreateTokenizerInfoFromSerializedJSONCall
  \/ CreateCompiledGrammarFromSerializedJSONCall
  \/ DestroyGrammarCall

SpecFallible == InitFactory /\ [][NextFallible]_vars

\* Tokenizer infos and matchers as created, read through the accessors.
InitInfo ==
  /\ Init
  /\ create_args.compiled_grammar = "ab_star"
  /\ ~create_args.terminate_without_stop_token
  /\ create_args.max_rollback_tokens = 0

NextInfo ==
  \/ TokenizerInfoCreateCall
  \/ DecodedVocabAtCall
  \/ StopTokenIdAtCall
  \/ SpecialTokenIdAtCall
  \/ MatcherStopTokenIdAtCall

SpecInfo == InitInfo /\ [][NextInfo]_vars

\* The compiler and its cache, over the tokenizer information a
\* deserialization produced.
InitCompiler ==
  /\ InitCaller
  /\ create_args.compiled_grammar = "ab_star"
  /\ ~create_args.has_override_stop_tokens
  /\ ~create_args.terminate_without_stop_token
  /\ create_args.max_rollback_tokens = 0
  /\ held_info = [null |-> FALSE, obj |-> TokenizerInfoDeserializeJSON("{v:current,g:ok}").obj]

NextCompiler ==
  \/ CompilerCreateCall
  \/ CompileGrammarCall
  \/ CompileBuiltinJSONCall
  \/ CompileReturn
  \/ ClearCacheCall

SpecCompiler == InitCompiler /\ [][NextCompiler]_vars

\* Grammars built from text and composed with Union and Concat.
NextCombine ==
  \/ CreateFromEBNFCall
  \/ CreateFromRegexCall
  \/ CreateUnionCall
  \/ CreateConcatCall

SpecCombine == InitFactory /\ [][NextCombine]_vars

\* The word count of a bitmask row, asked for every vocabulary size.
NextBitmaskSize == GetBitmaskSizeCall

SpecBitmaskSize == InitFactory /\ [][NextBitmaskSize]_vars

\* The matcher calls, with the jump-forward string asked for in between.
NextJump ==
  \/ NextMatcher
  \/ FindJumpForwardStringCall

SpecJump == Init /\ [][NextJump]_vars

\* The whole vocabulary is passed, without a vocabulary size; the stop
\* token arguments are any.
WholeVocabulary ==
  /\ ~last_call'.info_args.encoded_vocab.null
  /\ last_call'.info_args.encoded_vocab_count = Len(EncodedVocab)
  /\ ~last_call'.info_args.has_vocab_size

\* The tokenizer information of a run is made once, through either layer.
FirstTokenizerInfoCreateCall ==
  held_info.null /\ TokenizerInfoCreateCall /\ WholeVocabulary

FirstCreateTokenizerInfoFromArrayCall ==
  held_info.null /\ CreateTokenizerInfoFromArrayCall /\ WholeVocabulary

\* The same calls made through the bridge and through the shims.
NextMarshal ==
  \/ FillCall
  \/ swift_api_FillNextTokenBitmaskCall
  \/ CreateGrammarMatcherFromArrayCall
  \/ FirstTokenizerInfoCreateCall
  \/ FirstCreateTokenizerInfoFromArrayCall

SpecMarshal == InitInfo /\ [][NextMarshal]_vars



(***************************************************************************)
(* Observers used by the properties.                                       *)
(***************************************************************************)
Min(a, b) == IF a <= b THEN a ELSE b

Fresh == xgrammar_matcher_create(create_args)

RollbackableTokens(m) == Len(m.token_length_history)

Feed(m, e) ==
  IF e.stop
  THEN xgrammar_matcher_accept_token(m, CHOOSE id \in EffectiveStopTokenIds : TRUE).m
  ELSE xgrammar_matcher_accept_string(m, e.str).m

RECURSIVE Replay(_, _)
Replay(m, entries) ==
  IF entries = <<>> THEN m ELSE Replay(Feed(m, Head(entries)), Tail(entries))

IsSuffix(s, whole) == Len(s) <= Len(whole) /\ s = LastN(whole, Len(s))

SameVisibleState(m1, m2) ==
  /\ IsTerminated(m1) = IsTerminated(m2)
  /\ MaskRow(m1) = MaskRow(m2)

Committed(m, m2, token_id) ==
  /\ RollbackableTokens(m2) = Min(RollbackableTokens(m) + 1, m.max_rollback_tokens)
  /\ IF token_id \in EffectiveStopTokenIds
     THEN m2.stop_token_is_accepted /\ m2.stack = m.stack
     ELSE /\ ~m2.stop_token_is_accepted
          /\ Len(m2.stack) = Len(m.stack) + Len(DecodedVocab(token_id))
          /\ SubSeq(m2.stack, 1, Len(m.stack)) = m.stack
          /\ CurPos(m2) # Dead

(***************************************************************************)
(* C1: an AcceptToken that returns false leaves the matcher as it was      *)
(* (parse stack, history, termination flag; IsTerminated, the next-token   *)
(* bitmask and the number of tokens that can be rolled back unchanged);    *)
(* one that returns true has committed the token.                          *)
(***************************************************************************)
C1_AcceptTokenFrame ==
  [][last_call'.op = "accept_token" =>
       IF last_call'.ret = "false"
       THEN /\ matcher' = matcher
            /\ SameVisibleState(matcher', matcher)
            /\ RollbackableTokens(matcher') = RollbackableTokens(matcher)
       ELSE Committed(matcher, matcher', last_call'.token_id)]_vars

C1_Witness ==
  /\ last_call.op = "accept_token"
  /\ last_call.ret = "false"
  /\ RollbackableTokens(matcher) >= 1
  /\ ~IsTerminated(matcher)

(***************************************************************************)
(* C2: in a Terminated matcher every AcceptToken and AcceptString call     *)
(* returns false and the matcher stays Terminated.                         *)
(***************************************************************************)
C2_TerminatedRejects ==
  [][(IsTerminated(matcher) /\ last_call'.op \in {"accept_token", "accept_string"}) =>
       (last_call'.ret = "false" /\ IsTerminated(matcher'))]_vars

C2_Witness ==
  /\ last_call.op = "accept_string"
  /\ last_call.ret = "false"
  /\ last_call.str = <<"a">>
  /\ matcher.stop_token_is_accepted
  /\ IsTerminated(matcher)

(***************************************************************************)
(* C3: in an Active matcher, AcceptToken of an id of the effective stop    *)
(* set (the override when one was supplied, else the tokenizer's) returns  *)
(* true and terminates the matcher exactly at an accepting position;       *)
(* elsewhere it is rejected and the matcher stays Active.                  *)
(***************************************************************************)
C3_StopTokenTerminates ==
  [][(/\ ~IsTerminated(matcher)
      /\ last_call'.op = "accept_token"
      /\ last_call'.token_id \in EffectiveStopTokenIds) =>
       IF AtAcceptingPosition(matcher)
       THEN last_call'.ret = "true" /\ IsTerminated(matcher')
       ELSE last_call'.ret = "false" /\ ~IsTerminated(matcher') /\ matcher' = matcher]_vars

C3_Witness ==
  /\ last_call.op = "accept_token"
  /\ last_call.token_id = 3
  /\ last_call.ret = "true"
  /\ create_args.has_override_stop_tokens
  /\ ConsumedBytes(matcher) = 2
  /\ IsTerminated(matcher)

C5_RollbackInverse ==
  (/\ last_call.op = "rollback"
   /\ last_call.num_tokens >= 1
   /\ last_call.num_tokens <= last_call.avail) =>
    /\ SameVisibleState(matcher, Replay(Fresh, accepted))
    /\ matcher.stack = Replay(Fresh, accepted).stack
    /\ accepted = <<>> => SameVisibleState(matcher, Fresh)

C5_Witness ==
  /\ last_call.op = "rollback"
  /\ last_call.num_tokens = 2
  /\ last_call.avail = 2
  /\ last_call.undone = 2
  /\ accepted = <<>>

C7_FillGuards ==
  [][last_call'.op = "fill" =>
       /\ (last_call'.handle_null \/ last_call'.data = NULL \/ last_call'.count <= 0) =>
            (last_call'.ret = "false" /\ buffer' = buffer /\ matcher' = matcher)
       /\ (last_call'.ret = "true" \/ buffer' # buffer) =>
            last_call'.count = GetBitmaskSize(VocabSize)]_vars

C7_Witness ==
  /\ last_call.op = "fill"
  /\ last_call.ret = "false"
  /\ last_call.data = NULL
  /\ ~last_call.handle_null
  /\ last_call.count = RowLength
  /\ buffer[1] # PoisonWord

(***************************************************************************)
(* C8: after a successful FillNextTokenBitmask in an Active matcher, for   *)
(* every token id i of the vocabulary, bit i % 32 of word i / 32 of the    *)
(* selected row is set exactly when AcceptToken(i) would return true in    *)
(* that state; the call leaves the matcher as it was.                      *)
(***************************************************************************)
C8_MaskMatchesAccept ==
  [][(last_call'.op = "fill" /\ last_call'.ret = "true" /\ ~IsTerminated(matcher)) =>
       /\ matcher' = matcher
       /\ \A i \in 0..(VocabSize - 1) :
            ((i % 32) \in buffer'[last_call'.index * RowLength + (i \div 32) + 1])
              <=> xgrammar_matcher_accept_token(matcher, i).ret]_vars

C8_Witness ==
  /\ last_call.op = "fill"
  /\ last_call.ret = "true"
  /\ ~IsTerminated(matcher)
  /\ last_call.index = 1
  /\ 1 \in buffer[RowLength + 1]
  /\ 0 \in buffer[RowLength + 2]
  /\ 0 \notin buffer[RowLength + 1]

C10_FailureIsTyped ==
  (factory.op # "none" /\ (~factory.returned \/ factory.handle_null)) =>
     /\ factory.returned
     /\ factory.out_error_kind_arg = PTR =>
           factory.out_error_kind \notin {UNSET, "XGRAMMAR_ERROR_NONE"}
     /\ factory.out_error_arg = PTR => factory.out_error # UNSET
     /\ factory.op \in {"from_ebnf", "from_regex", "from_json_schema"} =>
           factory.out_error_kind \notin {UNSET, "XGRAMMAR_ERROR_NONE"}

FallibleOps ==
  {"from_structural_tag", "from_serialized_json",
   "tokenizer_info_from_serialized_json", "compiled_grammar_from_serialized_json"}

\* Whether the engine's construction fails on the input of a factory call.
ConstructionFails(op, input) ==
  CASE op = "from_structural_tag" -> FromStructuralTag(input).tag # "Grammar"
    [] op = "from_serialized_json" -> DeserializeJSON(input).tag # "Grammar"
    [] op = "tokenizer_info_from_serialized_json" ->
         TokenizerInfoDeserializeJSON(input).tag # "TokenizerInfo"
    [] op = "compiled_grammar_from_serialized_json" ->
         CompiledGrammarDeserializeJSON(input, held_info.obj).tag # "CompiledGrammar"
    [] OTHER -> FALSE

(***************************************************************************)
(* C11: the four fallible constructors (grammar from structural tag;       *)
(* grammar, compiled grammar and tokenizer info from serialized JSON)      *)
(* return NULL exactly when construction fails; on failure *out_error_kind *)
(* is a kind other than XGRAMMAR_ERROR_NONE and *out_error a message; on   *)
(* success the handle is non-NULL and *out_error_kind is                   *)
(* XGRAMMAR_ERROR_NONE; a NULL out-parameter is skipped in both outcomes.  *)
(***************************************************************************)
C11_FallibleConstructors ==
  factory.op \in FallibleOps =>
    /\ factory.returned
    /\ factory.handle_null <=> ConstructionFails(factory.op, factory.input)
    /\ factory.handle_null =>
         /\ factory.out_error_kind_arg = PTR =>
              factory.out_error_kind \notin {UNSET, "XGRAMMAR_ERROR_NONE"}
         /\ factory.out_error_arg = PTR => factory.out_error # UNSET
    /\ ~factory.handle_null =>
         (factory.out_error_kind_arg = PTR => factory.out_error_kind = "XGRAMMAR_ERROR_NONE")
    /\ factory.out_error_kind_arg = NULL => factory.out_error_kind = UNSET
    /\ factory.out_error_arg = NULL => factory.out_error = UNSET

C11_Witness ==
  /\ factory.op = "compiled_grammar_from_serialized_json"
  /\ factory.handle_null
  /\ factory.out_error_kind_arg = PTR
  /\ factory.out_error_arg = NULL
  /\ factory.out_error_kind = "XGRAMMAR_ERROR_DESERIALIZE_FORMAT"
  /\ factory.out_error = UNSET

\* What is wrong with the text handed to a factory, by the way it was built.
NotJSON(input) == input = "{not json"

VersionUnsupported(input) == input \in {"{v:newer,g:ok}", "{v:newer,g:broken}"}

StructurallyInvalid(input) == input \in {"{v:current,g:broken}", "{v:newer,g:broken}"}

(***************************************************************************)
(* C12: FromStructuralTag reports one of three error kinds, chosen by the  *)
(* cause: text that is not JSON gives InvalidJSONError (never              *)
(* InvalidStructuralTagError), an invalid embedded schema gives            *)
(* InvalidJSONSchemaError, an inconsistent tag structure gives             *)
(* InvalidStructuralTagError; the bridge hands each on as the kind of the  *)
(* same name, never as a deserialization kind, UNKNOWN or NONE.            *)
(***************************************************************************)
C12_StructuralTagKinds ==
  (factory.op = "from_structural_tag" /\ factory.out_error_kind_arg = PTR) =>
    /\ NotJSON(factory.input) =>
         factory.out_error_kind = "XGRAMMAR_ERROR_INVALID_JSON"
    /\ factory.input = "{tags:[bad schema]}" =>
         factory.out_error_kind = "XGRAMMAR_ERROR_INVALID_JSON_SCHEMA"
    /\ factory.input = "{tags:[overlapping]}" =>
         factory.out_error_kind = "XGRAMMAR_ERROR_INVALID_STRUCTURAL_TAG"
    /\ factory.handle_null =>
         factory.out_error_kind \in {"XGRAMMAR_ERROR_INVALID_JSON",
                                     "XGRAMMAR_ERROR_INVALID_JSON_SCHEMA",
                                     "XGRAMMAR_ERROR_INVALID_STRUCTURAL_TAG"}

C12_Witness ==
  /\ factory.op = "from_structural_tag"
  /\ factory.input = "{not json"
  /\ factory.out_error_kind_arg = PTR
  /\ factory.out_error_arg = PTR
  /\ factory.handle_null
  /\ factory.out_error_kind = "XGRAMMAR_ERROR_INVALID_JSON"
  /\ factory.out_error = "what: invalid JSON"

DeserializeOps ==
  {"from_serialized_json", "tokenizer_info_from_serialized_json",
   "compiled_grammar_from_serialized_json"}

(***************************************************************************)
(* C13: deserializing a Grammar, TokenizerInfo or CompiledGrammar payload  *)
(* fails with DeserializeVersionError when the format version is unknown   *)
(* or newer, with DeserializeFormatError when the version is supported but *)
(* the payload is structurally invalid, with InvalidJSONError when it is   *)
(* not JSON; the cases exclude one another and each reaches the caller as  *)
(* the error kind of the same name.                                        *)
(***************************************************************************)
C13_DeserializeKinds ==
  (factory.op \in DeserializeOps /\ factory.out_error_kind_arg = PTR) =>
    /\ factory.out_error_kind = "XGRAMMAR_ERROR_INVALID_JSON" <=> NotJSON(factory.input)
    /\ factory.out_error_kind = "XGRAMMAR_ERROR_DESERIALIZE_VERSION" <=>
         (~NotJSON(factory.input) /\ VersionUnsupported(factory.input))
    /\ factory.out_error_kind = "XGRAMMAR_ERROR_DESERIALIZE_FORMAT" <=>
         (/\ ~NotJSON(factory.input)
          /\ ~VersionUnsupported(factory.input)
          /\ StructurallyInvalid(factory.input))
    /\ factory.out_error_kind = "XGRAMMAR_ERROR_NONE" <=> ~factory.handle_null
    /\ factory.out_error_kind \in
         {"XGRAMMAR_ERROR_NONE", "XGRAMMAR_ERROR_INVALID_JSON",
          "XGRAMMAR_ERROR_DESERIALIZE_VERSION", "XGRAMMAR_ERROR_DESERIALIZE_FORMAT"}

C13_Witness ==
  /\ factory.op = "tokenizer_info_from_serialized_json"
  /\ factory.input = "{v:newer,g:broken}"
  /\ factory.out_error_kind_arg = PTR
  /\ factory.handle_null
  /\ factory.out_error_kind = "XGRAMMAR_ERROR_DESERIALIZE_VERSION"

\* The element at a 0-based index of a list, or the given default outside it.
ElementOr(list, index, default) ==
  IF index \in 0..(Len(list) - 1) THEN list[index + 1] ELSE default

(***************************************************************************)
(* C14: every indexed accessor returns the element at the index for an     *)
(* index in [0, count) and a fixed empty/zero value, without failing, for  *)
(* every other index, negative or >= count: decoded_vocab_at the empty     *)
(* string; stop_token_id_at and special_token_id_at of a tokenizer info    *)
(* and stop_token_id_at of a matcher 0.  The Swift shims agree.            *)
(***************************************************************************)
C14_AtAccessors ==
  /\ last_call.op = "decoded_vocab_at" =>
       /\ last_call.at_text = ElementOr(held_info.obj.decoded_vocab, last_call.index, "")
       /\ last_call.at_text = TokenizerInfoDecodedVocabAt(held_info.obj, last_call.index)
       /\ (last_call.index < 0 \/
           last_call.index >= xgrammar_tokenizer_info_decoded_vocab_count(held_info.obj))
            => last_call.at_text = ""
  /\ last_call.op = "stop_token_id_at" =>
       /\ last_call.at_value = ElementOr(held_info.obj.stop_token_ids, last_call.index, 0)
       /\ last_call.at_value = TokenizerInfoStopTokenIdAt(held_info.obj, last_call.index)
       /\ (last_call.index < 0 \/
           last_call.index >= xgrammar_tokenizer_info_stop_token_ids_count(held_info.obj))
            => last_call.at_value = 0
  /\ last_call.op = "special_token_id_at" =>
       /\ last_call.at_value = ElementOr(held_info.obj.special_token_ids, last_call.index, 0)
       /\ last_call.at_value = TokenizerInfoSpecialTokenIdAt(held_info.obj, last_call.index)
       /\ (last_call.index < 0 \/
           last_call.index >= xgrammar_tokenizer_info_special_token_ids_count(held_info.obj))
            => last_call.at_value = 0
  /\ last_call.op = "matcher_stop_token_id_at" =>
       /\ last_call.at_value = ElementOr(matcher.stop_token_ids, last_call.index, 0)
       /\ last_call.at_value = GrammarMatcherStopTokenIdAt(matcher, last_call.index)
       /\ (last_call.index < 0 \/
           last_call.index >= xgrammar_matcher_stop_token_ids_count(matcher))
            => last_call.at_value = 0

C14_Witness ==
  /\ last_call.op = "stop_token_id_at"
  /\ last_call.index = 2
  /\ xgrammar_tokenizer_info_stop_token_ids_count(held_info.obj) = 2
  /\ last_call.at_value = 0
  /\ held_info.obj.stop_token_ids = <<5, 3>>

\* The optional a (has, pointer, count) triple stands for.
ExpectedOpt(has, array, count) ==
  IF ~has THEN [has_value |-> FALSE, value |-> <<>>]
  ELSE IF array.null \/ count <= 0 THEN [has_value |-> TRUE, value |-> <<>>]
  ELSE [has_value |-> TRUE, value |-> [i \in 1..count |-> array.elems[i]]]

(***************************************************************************)
(* C15: the stop-token arguments of matcher creation and of tokenizer-info *)
(* creation tell 'use the default' from 'explicitly empty': has = false is *)
(* the unset configuration whatever pointer and count are; has = true with *)
(* a null pointer or count <= 0 is the empty set; has = true with a        *)
(* pointer and count > 0 is the first count ids in order.  A matcher       *)
(* created with the empty override has no stop token, one created unset    *)
(* has the tokenizer's; a tokenizer info likewise has none, or its         *)
(* vocabulary's default.                                                   *)
(***************************************************************************)
C15_StopTokenConfiguration ==
  /\ \A has \in BOOLEAN, ptr_null \in BOOLEAN, cnt \in (0 - 1)..Len(OverrideArray) :
       LET array == [null |-> ptr_null, elems |-> OverrideArray]
       IN  /\ OverrideOpt(array, cnt, has) = ExpectedOpt(has, array, cnt)
           /\ StopOpt(array, cnt, has) = ExpectedOpt(has, array, cnt)
  /\ LET opt == ExpectedOpt(create_args.has_override_stop_tokens,
                            create_args.override_stop_tokens,
                            create_args.override_stop_token_count)
     IN  GetStopTokenIds(matcher) =
           IF opt.has_value THEN opt.value ELSE TokenizerStopTokenIds
  /\ last_call.op = "tokenizer_info_create" =>
       LET a == last_call.info_args
           opt == ExpectedOpt(a.has_stop_token_ids, a.stop_token_ids, a.stop_token_count)
       IN  held_info.obj.stop_token_ids =
             IF opt.has_value THEN opt.value
             ELSE StopIdsOf(held_info.obj.decoded_vocab)

C15_Witness ==
  /\ create_args.has_override_stop_tokens
  /\ create_args.override_stop_token_count = 0
  /\ GetStopTokenIds(matcher) = <<>>
  /\ TokenizerStopTokenIds # <<>>
  /\ last_call.op = "tokenizer_info_create"
  /\ last_call.info_args.has_stop_token_ids
  /\ last_call.info_args.stop_token_ids.null
  /\ last_call.info_args.stop_token_count = 2
  /\ held_info.obj.stop_token_ids = <<>>
  /\ StopIdsOf(held_info.obj.decoded_vocab) = <<3>>


(***************************************************************************)
(* The compiler's cache.                                                   *)
(***************************************************************************)
CompileKeys == CompileInputs \cup {"builtin_json"}

\* The call phase of the Compile* call for a key, as the bridge makes it.
CompileCall(c, key) ==
  IF key = "builtin_json"
    THEN xgrammar_compiler_compile_builtin_json(c, "call", FALSE, "insert")
    ELSE xgrammar_compiler_compile_grammar(c, key, "call", FALSE, "insert")

RECURSIVE TotalSize(_)
TotalSize(cache) ==
  IF cache = <<>> THEN 0 ELSE Head(cache).size + TotalSize(Tail(cache))

\* C16: with caching enabled, in every state that Compile* and ClearCache
\* calls lead to, a Compile* call for a key that is in the cache returns the
\* cached compilation without starting a compilation and leaves the cache
\* size and the cached keys as they were, while a call for any other key
\* compiles; with caching disabled every call compiles, no call is a hit and
\* the cache size stays 0.
C16_CacheHit ==
  ~compiler.null =>
    /\ \A key \in CompileKeys :
         LET r == CompileCall(compiler.obj, key)
         IN  IF compiler.args.cache_enabled /\ key \in CacheKeys(compiler.obj)
               THEN /\ r.done /\ r.hit
                    /\ r.compiled_grammar = key
                    /\ xgrammar_compiler_cache_size(r.c) = xgrammar_compiler_cache_size(compiler.obj)
                    /\ CacheKeys(r.c) = CacheKeys(compiler.obj)
               ELSE ~r.done /\ ~r.hit
    /\ \A t \in Threads : threads[t].hit => compiler.args.cache_enabled /\ threads[t].pc = "idle"
    /\ ~compiler.args.cache_enabled =>
         /\ xgrammar_compiler_cache_size(compiler.obj) = 0
         /\ compiler.obj.cache = <<>>

\* With caching enabled a call has hit the cache while two compilations
\* are cached.
C16_Witness ==
  /\ ~compiler.null
  /\ compiler.args.cache_enabled
  /\ \E t \in Threads : threads[t].hit /\ threads[t].key \in CacheKeys(compiler.obj)
  /\ Len(compiler.obj.cache) = 2

WithinLimit(c) ==
  \/ xgrammar_compiler_cache_size(c) <= xgrammar_compiler_cache_limit(c)
  \/ Len(c.cache) = 1 /\ c.cache[1].size > xgrammar_compiler_cache_limit(c)

\* The insert that ends the compilation of key took the fewest entries
\* from the least recently used end of old that make room for it.
EvictedInOrder(old, new, key, limit) ==
  LET size == MemorySizeBytes(key)
      Kept(n) == SubSeq(old, n + 1, Len(old))
      Fits(n) == n = Len(old) \/ TotalSize(Kept(n)) + size <= limit
  IN  \E n \in 0..Len(old) :
        /\ Fits(n)
        /\ \A m \in 0..(n - 1) : ~Fits(m)
        /\ new = Append(Kept(n), [key |-> key, size |-> size, pre_clear |-> FALSE])

FedStop(call) == call.op = "accept_token" /\ call.token_id \in EffectiveStopTokenIds

FedBytes(call) ==
  IF call.op = "accept_string" THEN call.str ELSE DecodedVocab(call.token_id)

\* The call continues a string of the grammar's language from where m is:
\* bytes that lead to a position of the grammar (from each of which the
\* grammar can still end), or a stop token where the grammar can end.
ContinuesLanguage(m, call) ==
  IF FedStop(call) THEN AtAcceptingPosition(m)
  ELSE /\ call.op = "accept_token" => call.token_id \notin SpecialTokenIds
       /\ FedBytes(call) # <<>>
       /\ ~Rejects(m.grammar, CurPos(m), FedBytes(call))

\* A stop token is the last input accepted and not undone.
StopSupplied(entries) == entries # <<>> /\ entries[Len(entries)].stop

PassedOn(grammars, count) ==
  IF grammars.null \/ count <= 0 THEN <<>> ELSE SubSeq(grammars.elems, 1, count)

\* C20: for every array of held grammars and every count a caller can pass,
\* create_union and create_concat (and the Swift wrappers) return a grammar
\* built from the first count grammars of the array in order, and from no
\* grammar when the pointer is null or count <= 0; the Concat of no grammars
\* accepts the empty string and nothing else, the Union of no grammars
\* accepts no string, the Union of some accepts what one of them accepts and
\* the Concat of some what splits into strings they accept in order; and
\* after a call the grammars passed in are still held, as they were.
C20_EmptyUnionConcat ==
  /\ \A grammars \in GrammarArrays(held) :
       \A count \in CountInputs(grammars) :
         LET u == xgrammar_grammar_create_union(grammars, count)
             c == xgrammar_grammar_create_concat(grammars, count)
             passed == PassedOn(grammars, count)
         IN  /\ u.returned /\ ~u.handle.null
             /\ c.returned /\ ~c.handle.null
             /\ u.handle.obj.src = "union" /\ u.handle.obj.parts = passed
             /\ c.handle.obj.src = "concat" /\ c.handle.obj.parts = passed
             /\ GrammarUnionFromArray(grammars, count) = u.handle.obj
             /\ GrammarConcatFromArray(grammars, count) = c.handle.obj
             /\ \A s \in Strings :
                  /\ Accepts(u.handle.obj, s) = (\E i \in 1..Len(passed) : Accepts(passed[i], s))
                  /\ passed = <<>> => ~Accepts(u.handle.obj, s)
                  /\ passed = <<>> => (Accepts(c.handle.obj, s) = (s = <<>>))
                  /\ Len(passed) = 1 => (Accepts(c.handle.obj, s) = Accepts(passed[1], s))
                  /\ Len(passed) = 2 =>
                       (Accepts(c.handle.obj, s) =
                          (\E k \in 0..Len(s) : /\ Accepts(passed[1], SubSeq(s, 1, k))
                                                /\ Accepts(passed[2], SubSeq(s, k + 1, Len(s)))))
  /\ (last_call.op \in {"create_union", "create_concat"} /\ factory.op = last_call.op) =>
       LET a == last_call.combine_args
           passed == PassedOn(a, a.count)
       IN  /\ SeqToSet(a.elems) \subseteq held
           /\ ~factory.handle_null
           /\ (IF last_call.op = "create_union" THEN Union(passed) ELSE Concat(passed)) \in held

\* create_concat was called with an array of two different grammars and
\* count 0, and the grammar that accepts only the empty string is held.
C20_Witness ==
  /\ last_call.op = "create_concat"
  /\ factory.op = "create_concat"
  /\ ~last_call.combine_args.null
  /\ Len(last_call.combine_args.elems) = 2
  /\ last_call.combine_args.elems[1] # last_call.combine_args.elems[2]
  /\ last_call.combine_args.count = 0
  /\ Concat(<<>>) \in held
  /\ \A s \in Strings : Accepts(Concat(<<>>), s) = (s = <<>>)


JumpCall == last_call'.op = "find_jump_forward_string"

\* The call leaves what a caller can observe of the matcher as it was.
JumpFrame ==
  /\ SameVisibleState(matcher', matcher)
  /\ RollbackableTokens(matcher') = RollbackableTokens(matcher)

\* Feeding the returned string to the matcher as the call left it.
JumpAccepted == xgrammar_matcher_accept_string(matcher', last_call'.str).ret

C22_TerminatedJump ==
  /\ last_call.op = "find_jump_forward_string"
  /\ IsTerminated(matcher)
  /\ ~xgrammar_matcher_accept_string(matcher, last_call.str).ret


\* ---- C23 ----

\* A fill call through either layer, debug_print false: both layers, given
\* the call's arguments in the state before it, take the same guard branch
\* and hand the engine the same tensor and index, and the layer that was
\* not called would have returned the result and left the buffer the call
\* did.
SameFill ==
  LET c == last_call'
      h == [null |-> c.handle_null, obj |-> matcher]
      r == [ret |-> c.ret, mem |-> buffer']
      bc == xgrammar_matcher_fill_engine_call(h, c.data, c.count, c.index)
      sc == swift_api_FillNextTokenBitmask_engine_call(h, c.data, c.count, c.index, FALSE)
  IN  /\ bc = sc
      /\ bc.called =>
           /\ bc.tensor.ndim = 1
           /\ bc.tensor.dtype = <<"kDLInt", 32, 1>>
           /\ bc.tensor.shape = <<c.count>>
           /\ bc.tensor.data = c.data
           /\ bc.index = c.index
      /\ ~c.debug_print =>
           r = (IF c.op = "fill"
                THEN swift_api_FillNextTokenBitmask(h, c.data, buffer, c.count, c.index, FALSE)
                ELSE xgrammar_matcher_fill_next_token_bitmask(
                       h, c.data, buffer, c.count, c.index))

\* For a matcher just made, every combination of null or non-null matcher
\* and buffer, count and index is marshaled alike by the two layers.
SameGuards ==
  \A hn \in BOOLEAN, d \in {NULL, PTR}, cnt \in (0 - 1)..(NumRows * RowLength), idx \in IndexInputs :
    xgrammar_matcher_fill_engine_call([null |-> hn, obj |-> matcher'], d, cnt, idx)
      = swift_api_FillNextTokenBitmask_engine_call(
          [null |-> hn, obj |-> matcher'], d, cnt, idx, FALSE)

\* A matcher made through the shim: the optional stop-token set is the one
\* the bridge builds from the same arguments, and so is the matcher.
SameOverride ==
  LET a == create_args'
  IN  /\ CreateGrammarMatcherFromArray_override_opt(
           a.override_stop_tokens, a.override_stop_token_count, a.has_override_stop_tokens)
         = OverrideOpt(a.override_stop_tokens, a.override_stop_token_count,
                       a.has_override_stop_tokens)
      /\ matcher' = xgrammar_matcher_create(a)

\* A tokenizer info made through either layer: the optional stop-token set
\* is the same in both, and so are the stop tokens of the object.
SameStop ==
  LET a == last_call'.info_args
      b == [a EXCEPT !.vocab_type = "XGRAMMAR_VOCAB_RAW"]
      s == [a EXCEPT !.vocab_type = "RAW"]
  IN  /\ CreateTokenizerInfoFromArray_stop_tokens_opt(
           a.stop_token_ids, a.stop_token_count, a.has_stop_token_ids)
         = StopOpt(a.stop_token_ids, a.stop_token_count, a.has_stop_token_ids)
      /\ held_info'.obj.stop_token_ids = xgrammar_tokenizer_info_create(b).stop_token_ids
      /\ held_info'.obj.stop_token_ids = CreateTokenizerInfoFromArray(s).stop_token_ids

\* C23: the two marshaling implementations agree.  For every (matcher
\* pointer null or not, buffer null or not, bitmask_count, index) the bridge
\* and the shim with debug_print false take the same guard branch and hand
\* the engine the same 1-dimensional int32 tensor of shape [bitmask_count];
\* for every (pointer, count, has flag) they build the same optional
\* stop-token set for matcher and tokenizer-info creation.
C23_MarshalingAgrees ==
  [][/\ last_call'.op \in {"fill", "swift_api::FillNextTokenBitmask"} => SameFill
     /\ last_call'.op = "CreateGrammarMatcherFromArray" => SameOverride /\ SameGuards
     /\ last_call'.op \in {"tokenizer_info_create", "CreateTokenizerInfoFromArray"}
          => SameStop]_vars

\* The shim filled a row the bridge had left poisoned, over a tokenizer
\* info whose stop tokens were given as an array, for a matcher the shim
\* made with overriding stop tokens.
C23_Witness ==
  /\ last_call.op = "swift_api::FillNextTokenBitmask"
  /\ last_call.ret = "true"
  /\ ~last_call.debug_print
  /\ last_call.index = NumRows - 1
  /\ buffer[Len(buffer)] # PoisonWord
  /\ ~held_info.null
  /\ held_info.obj.stop_token_ids = StopArray
  /\ create_args.has_override_stop_tokens
  /\ matcher.stop_token_ids = <<Head(OverrideArray)>>

====
